---------------------------- MODULE Spec2Model ----------------------------
(***************************************************************************)
(* async-opcua: the server's per-connection SessionController              *)
(* (async-opcua-server/src/session/controller.rs): its event loop, the     *)
(* OpenSecureChannel state machine, request validation and the pending     *)
(* set of async service calls.                                             *)
(*                                                                         *)
(* Time is abstract: a deadline is a value that the environment may let    *)
(* pass at any moment.  The SecureChannel, the TcpTransport, the           *)
(* SessionManager and the MessageHandler are collaborators whose code is   *)
(* outside the modelled files; they are modelled by their contracts.       *)
(***************************************************************************)
EXTENDS Integers, Sequences, FiniteSets, TLC

(***************************************************************************)
(* Bounds of the model.                                                    *)
(***************************************************************************)
\* Requests (of any kind) one connection receives.
MaxRequests == 4
\* OpenSecureChannel requests among them.
MaxOpens == 2
\* Authentication tokens the SessionManager can hand out.
MaxSessions == 1
\* Timeout hints and max_timeout_ms values range over 0..MaxMillis, receipt times
\* over 0..MaxReceipt.
MaxMillis == 4
MaxReceipt == 3
\* The callers sharing the client's SecureChannelState.
MaxCallers == 2
\* The request handles handed out before the callers stop asking.
MaxHandles == 3
\* The responses handed to end_issue_or_renew_secure_channel.
MaxResponses == 2
\* The largest difference between two clock readings.
MaxSkew == 1
\* The earliest clock reading.
BaseTime == 10
\* The node ids of the type tree besides its four roots.
MaxNodes == 2
\* The calls of add_type_node and remove.
MaxTreeOps == 3
\* The values a present field of a DataValue is drawn from.
MaxField == 2
\* The largest client offset of a decoding context.
MaxOffset == 1

(***************************************************************************)
(* Program constants and input domains.                                    *)
(***************************************************************************)
\* info.config.max_secure_channel_token_lifetime_ms
max_secure_channel_token_lifetime_ms == 2
\* AtomicHandle: the first secure channel id handed out.
FirstSecureChannelId == 1

RequestIds == 1..MaxRequests
\* The request_handle the client puts in the header of its n-th request: the
\* client's handles increase with its requests and differ from the request ids.
FirstRequestHandle == 11
HandleOf(request_id) == FirstRequestHandle + request_id - 1
\* Authentication tokens; NullToken is the null NodeId.
NullToken == 0
Tokens == 1..MaxSessions
\* Client nonces: 0 is the null/empty byte string, the others are well formed.
Nonces == {0, 1, 2}
Lifetimes == {1, 3}
SecurityPolicies == {"None", "Basic256Sha256"}
\* "Invalid" stands for every MessageSecurityMode outside the three real ones.
SecurityModes == {"None", "Sign", "SignAndEncrypt", "Invalid"}
\* service_result values a service handler may produce.
HandlerStatuses == {"Good", "BadUserAccessDenied"}

VARIABLES
    running,                  \* the event loop of run() has not left its loop
    closing,                  \* transport.is_closing()
    outbox,                   \* messages accepted by the transport for sending, in order
    secure_channel_state,     \* SecureChannelState {issued, renew_count, last_token_id}
    secure_channel_id_handle, \* the shared AtomicHandle: next channel id to hand out
    channel,                  \* the SecureChannel fields the controller reads and writes
    deadline,                 \* SessionController.deadline
    diagnostics,              \* rejected / security-rejected request counters
    sessions,                 \* SessionManager: authentication token -> session
    pending,                  \* pending_messages: the futures not yet resolved
    calls,                    \* the spawned service calls: request id -> task state
    expired,                  \* request ids whose per-request deadline has passed
    handled,                  \* requests handed to MessageHandler.handle_message
    next_request_id,          \* the client's request id counter
    opens,                    \* OpenSecureChannel requests received so far
    timing,                   \* the per-request deadline computation of one service request
    client_channel_state,     \* the client's SecureChannelState and the callers using it
    type_tree,                \* DefaultTypeTree {nodes, subtypes_by_source, subtypes_by_target}
    codec,                    \* one DataValue on its way through the binary encoder and decoder
    starter                   \* SessionStarter.run: its position, its command channel, its connect

vars == <<running, closing, outbox, secure_channel_state, secure_channel_id_handle,
          channel, deadline, diagnostics, sessions, pending, calls, expired,
          handled, next_request_id, opens, timing, client_channel_state, type_tree,
          codec, starter>>

(***************************************************************************)
(* Messages handed to the transport.                                       *)
(***************************************************************************)
Message(kind, request_id, request_handle, status) ==
    [kind |-> kind, request_id |-> request_id, request_handle |-> request_handle,
     status |-> status, channel_id |-> 0, token_id |-> 0, revised_lifetime |-> 0]

\* ServiceFault::new(request_handle, status), sent under request_id.
ServiceFault(request_id, request_handle, status) ==
    Message("ServiceFault", request_id, request_handle, status)

\* A service response produced by a handler (its service_result may be bad).
ServiceResponse(request_id, request_handle, status) ==
    Message("Response", request_id, request_handle, status)

\* ErrorMessage::new(err, msg), the TCP ERR message.
ErrorMessage(status) == Message("Error", 0, 0, status)

\* transport.enqueue_message_for_send: fails (nothing queued) when ok is FALSE.
enqueue_message_for_send(queue, message, ok) ==
    IF ok THEN Append(queue, message) ELSE queue


(***************************************************************************)
(* SecureChannel operations used by open_secure_channel.  Their code lives *)
(* in the core crate; they are modelled from their contracts.              *)
(***************************************************************************)
\* set_remote_cert_from_byte_string: fails with BadCertificateInvalid when the
\* sender certificate cannot be parsed.
SenderCertificates == {"valid", "garbage"}
set_remote_cert_from_byte_string(cert) ==
    IF cert = "garbage" THEN "BadCertificateInvalid" ELSE "Good"

\* set_remote_nonce_from_byte_string: under a secured policy and mode the nonce
\* must have the length the policy prescribes (the null nonce has not).
set_remote_nonce_from_byte_string(ch, policy, nonce) ==
    IF policy # "None" /\ ch.security_mode \in {"Sign", "SignAndEncrypt"}
          /\ nonce = 0
    THEN [status |-> "BadNonceInvalid", channel |-> ch]
    ELSE [status |-> "Good", channel |-> [ch EXCEPT !.remote_nonce = nonce]]

(***************************************************************************)
(* SecureChannelState (server side).                                       *)
(***************************************************************************)
\* AtomicHandle::next() on the shared channel id handle.
create_secure_channel_id(handle) ==
    [id |-> handle, handle |-> handle + 1]

\* A faulty variant: the token id is handed out without advancing the counter.
create_token_id_stale(state) == state

\* A faulty variant: every token id handed out leaves a gap behind it.
create_token_id_skipping(state) ==
    [state EXCEPT !.last_token_id = @ + 2]

create_token_id(state) ==
    [state EXCEPT !.last_token_id = @ + 1]

(***************************************************************************)
(* open_secure_channel.  An OpenSecureChannel request is a record          *)
(*   header (Asymmetric / Symmetric security header of the chunk),         *)
(*   security_policy (the policy the asymmetric header names: decoding the *)
(*   chunk makes it the channel's policy before the request is processed), *)
(*   protocol_ok (client_protocol_version equals the one of the HELLO),    *)
(*   request_type, security_mode, client_nonce, sender_certificate,        *)
(*   requested_lifetime.                                                   *)
(* The result is the Result<ResponseMessage, StatusCode> of the function   *)
(* (ok: it is Ok(..); good: the message is an OpenSecureChannelResponse)   *)
(* together with the state the function leaves behind.                     *)
(***************************************************************************)
OpenResult(ok, good, status, state, handle, ch) ==
    [ok |-> ok, good |-> good, status |-> status,
     state |-> state, handle |-> handle, channel |-> ch]

\* A faulty variant: the duplicate nonce test is left out.
NonceNeverReused(ch, request) == FALSE

\* The duplicate nonce test of a Renew.
NonceReused(ch, request) ==
    request.security_policy # "None" /\ request.client_nonce = ch.remote_nonce

SecurityModeAccepted(mode) ==
    mode \in {"None", "Sign", "SignAndEncrypt"}

\* A faulty variant: the requested lifetime is granted as it is.
RevisedLifetimeRequested(request) == request.requested_lifetime

RevisedLifetime(request) ==
    IF max_secure_channel_token_lifetime_ms <= request.requested_lifetime
    THEN max_secure_channel_token_lifetime_ms
    ELSE request.requested_lifetime

\* A faulty variant: a Renew moves the channel to the next id.
RenewSecureChannelIdNext(ch) == ch.secure_channel_id + 1

\* The channel id a Renew keeps.
RenewSecureChannelId(ch) == ch.secure_channel_id

\* "Process the request": everything after the security mode check.
ProcessOpen(request, state, handle, ch, secure_channel_id) ==
    LET issued_state == create_token_id([state EXCEPT !.issued = TRUE])
        ch1 == [ch EXCEPT !.security_mode = request.security_mode,
                          !.token_id = issued_state.last_token_id,
                          !.secure_channel_id = secure_channel_id]
        cert == set_remote_cert_from_byte_string(request.sender_certificate)
        ch2 == [ch1 EXCEPT !.token_lifetime = RevisedLifetime(request)]
        nonce == set_remote_nonce_from_byte_string(ch2, request.security_policy,
                                                   request.client_nonce)
    IN  IF cert # "Good"
        THEN OpenResult(FALSE, FALSE, cert, issued_state, handle, ch1)
        ELSE IF nonce.status # "Good"
        THEN OpenResult(TRUE, FALSE, nonce.status, issued_state, handle, ch2)
        ELSE OpenResult(TRUE, TRUE, "Good", issued_state, handle, nonce.channel)

\* A faulty variant: an invalid security mode is returned as an error.
CheckModeFatal(request, state, handle, ch, secure_channel_id) ==
    IF ~SecurityModeAccepted(request.security_mode)
    THEN OpenResult(FALSE, FALSE, "BadSecurityModeRejected", state, handle, ch)
    ELSE ProcessOpen(request, state, handle, ch, secure_channel_id)

\* The security mode check, reached with the channel id of the request type.
CheckMode(request, state, handle, ch, secure_channel_id) ==
    IF ~SecurityModeAccepted(request.security_mode)
    THEN OpenResult(TRUE, FALSE, "BadSecurityModeRejected", state, handle, ch)
    ELSE ProcessOpen(request, state, handle, ch, secure_channel_id)

\* "Test the request type".
OpenIssue(request, state, handle, ch) ==
    LET next == create_secure_channel_id(handle)
    IN  CheckMode(request, state, next.handle, ch, next.id)

OpenRenew(request, state, handle, ch) ==
    IF NonceReused(ch, request)
    THEN OpenResult(TRUE, FALSE, "BadNonceInvalid", state, handle, ch)
    ELSE IF ~state.issued
    THEN OpenResult(FALSE, FALSE, "BadUnexpectedError", state, handle, ch)
    ELSE CheckMode(request, [state EXCEPT !.renew_count = @ + 1], handle, ch,
                   RenewSecureChannelId(ch))

open_secure_channel(request, state, handle, ch) ==
    IF request.header # "Asymmetric"
    THEN OpenResult(FALSE, FALSE, "BadUnexpectedError", state, handle, ch)
    ELSE IF ~request.protocol_ok
    THEN OpenResult(TRUE, FALSE, "BadProtocolVersionUnsupported", state, handle, ch)
    ELSE IF request.request_type = "Issue"
    THEN OpenIssue(request, state, handle, ch)
    ELSE OpenRenew(request, state, handle, ch)

\* The ResponseMessage of an Ok result: the OpenSecureChannelResponse or a fault.
OpenSecureChannelResponse(request, request_id, result) ==
    [Message("OpenSecureChannelResponse", request_id, HandleOf(request_id), "Good")
       EXCEPT !.channel_id = result.channel.secure_channel_id,
              !.token_id = result.channel.token_id,
              !.revised_lifetime = RevisedLifetime(request)]

OpenMessage(request, request_id, result) ==
    IF result.good
    THEN OpenSecureChannelResponse(request, request_id, result)
    ELSE ServiceFault(request_id, HandleOf(request_id), result.status)


EmptyTable == [t \in {} |-> 0]

Extend(table, key, value) ==
    [k \in DOMAIN table \cup {key} |-> IF k = key THEN value ELSE table[k]]

(***************************************************************************)
(* Sessions.  The Session and the SessionManager are modelled from their   *)
(* contracts: a session is created not activated and bound to the channel  *)
(* it was created on, ActivateSession activates it and binds it to the     *)
(* current channel, and it times out when the client stays silent.         *)
(***************************************************************************)
NewSession(channel_id) ==
    [activated |-> FALSE, secure_channel_id |-> channel_id, timed_out |-> FALSE]

validate_activated(session) ==
    IF session.activated THEN "Good" ELSE "BadSessionNotActivated"

validate_secure_channel_id(session, channel_id) ==
    IF session.secure_channel_id = channel_id THEN "Good" ELSE "BadSecureChannelIdInvalid"

validate_timed_out(session) ==
    IF session.timed_out THEN "BadSessionIdInvalid" ELSE "Good"

\* A faulty variant: the channel binding is not checked.
validate_request_unbound(token, table, ch) ==
    IF token \notin DOMAIN table
    THEN "BadSessionIdInvalid"
    ELSE IF validate_activated(table[token]) # "Good"
    THEN validate_activated(table[token])
    ELSE validate_timed_out(table[token])

\* A faulty variant: the channel binding is checked before the activation.
validate_request_channel_first(token, table, ch) ==
    IF token \notin DOMAIN table
    THEN "BadSessionIdInvalid"
    ELSE IF validate_secure_channel_id(table[token], ch.secure_channel_id) # "Good"
    THEN validate_secure_channel_id(table[token], ch.secure_channel_id)
    ELSE IF validate_activated(table[token]) # "Good"
    THEN validate_activated(table[token])
    ELSE validate_timed_out(table[token])

\* A faulty variant: the session's timeout is not checked.
validate_request_no_timeout(token, table, ch) ==
    IF token \notin DOMAIN table
    THEN "BadSessionIdInvalid"
    ELSE IF validate_activated(table[token]) # "Good"
    THEN validate_activated(table[token])
    ELSE validate_secure_channel_id(table[token], ch.secure_channel_id)

\* validate_request: the status of the ServiceFault it returns, or "Good".
validate_request(token, table, ch) ==
    IF token \notin DOMAIN table
    THEN "BadSessionIdInvalid"
    ELSE IF validate_activated(table[token]) # "Good"
    THEN validate_activated(table[token])
    ELSE IF validate_secure_channel_id(table[token], ch.secure_channel_id) # "Good"
    THEN validate_secure_channel_id(table[token], ch.secure_channel_id)
    ELSE validate_timed_out(table[token])

(***************************************************************************)
(* Diagnostics counters.                                                   *)
(***************************************************************************)
inc_rejected_requests(diag) == [diag EXCEPT !.rejected = @ + 1]

inc_security_rejected_requests(diag) == [diag EXCEPT !.security_rejected = @ + 1]

IsSecurityStatus(status) ==
    status \in {"BadSessionIdInvalid", "BadSecurityChecksFailed", "BadUserAccessDenied"}

response_metrics(diag, status) ==
    IF diag.enabled /\ status # "Good"
    THEN IF IsSecurityStatus(status)
         THEN inc_security_rejected_requests(inc_rejected_requests(diag))
         ELSE inc_rejected_requests(diag)
    ELSE diag

(***************************************************************************)
(* The per-request deadline of a service request (process_request), in     *)
(* milliseconds on the clock that gives the receipt time.  timeout_hint    *)
(* and max_timeout_ms are u32: taking the larger of the two cannot         *)
(* overflow.                                                               *)
(***************************************************************************)
\* Duration::from_secs(60 * 60 * 24), in milliseconds.
DayMillis == 86400000

\* A faulty variant: the smaller of the hint and the configured timeout.
request_timeout_min(timeout_hint, max_timeout) ==
    IF max_timeout = 0 THEN timeout_hint
    ELSE IF max_timeout <= timeout_hint THEN max_timeout ELSE timeout_hint

\* "let timeout = if max_timeout == 0 { timeout } else { max_timeout.max(timeout) }"
request_timeout(timeout_hint, max_timeout) ==
    IF max_timeout = 0 THEN timeout_hint
    ELSE IF max_timeout >= timeout_hint THEN max_timeout ELSE timeout_hint

\* The deadline of the request received at now.
request_deadline(now, timeout_hint, max_timeout) ==
    IF request_timeout(timeout_hint, max_timeout) = 0
    THEN now + DayMillis
    ELSE now + request_timeout(timeout_hint, max_timeout)

\* The deadline field before the deadline has been computed.
NoDeadline == -1

(***************************************************************************)
(* Pieces of the event loop.                                               *)
(***************************************************************************)
\* The status enqueue_message_for_send fails with.
EnqueueError == "BadTcpMessageTooLarge"

\* A faulty variant: no error message is sent.
fatal_error_silent(queue, is_closing, err) == queue

\* A faulty variant: the error message is sent even when the transport is closing.
fatal_error_repeated(queue, is_closing, err) == Append(queue, ErrorMessage(err))

\* fatal_error: one error message unless the transport is closing, then closing.
fatal_error(queue, is_closing, err) ==
    IF ~is_closing THEN Append(queue, ErrorMessage(err)) ELSE queue

\* A faulty variant: the deadline is looked at before the call.
PollEntryDeadlineFirst(kind, call, is_expired) ==
    IF kind = "call" /\ is_expired THEN "Timeout"
    ELSE IF call.state = "finished" THEN "Result"
    ELSE IF call.state = "panicked" THEN "Panic"
    ELSE "Pending"

\* A faulty variant: an expired call is left waiting for its result.
PollEntryNoDeadline(kind, call, is_expired) ==
    IF call.state = "finished" THEN "Result"
    ELSE IF call.state = "panicked" THEN "Panic"
    ELSE "Pending"

\* A faulty variant: a publish reply is raced against the deadline like a call.
PollEntryAnyKind(kind, call, is_expired) ==
    IF call.state = "finished" THEN "Result"
    ELSE IF call.state = "panicked" THEN "Panic"
    ELSE IF is_expired THEN "Timeout"
    ELSE "Pending"

\* What polling one entry of pending_messages yields.  A service call is raced
\* against its deadline with the call first (select! biased); a publish reply
\* has no deadline.
PollEntry(kind, call, is_expired) ==
    IF call.state = "finished" THEN "Result"
    ELSE IF call.state = "panicked" THEN "Panic"
    ELSE IF kind = "call" /\ is_expired THEN "Timeout"
    ELSE "Pending"

\* The request the transport hands over next: the client numbers its requests.
NewRequest ==
    /\ running
    /\ next_request_id <= MaxRequests
    /\ next_request_id' = next_request_id + 1

FrameChannel ==
    UNCHANGED <<secure_channel_state, secure_channel_id_handle, channel, deadline, opens,
                timing, client_channel_state, type_tree, codec, starter>>

FrameCalls == UNCHANGED <<pending, calls, expired, handled>>

(***************************************************************************)
(* process_request, one action per kind of request, each together with the *)
(* transport.poll that delivered it and the set_closing of run() when the  *)
(* result is Close.                                                        *)
(***************************************************************************)
\* Requests that reach the request type test.
WellFormedOpens ==
    [header : {"Asymmetric"}, protocol_ok : {TRUE},
     security_policy : SecurityPolicies,
     request_type : {"Issue", "Renew"}, security_mode : SecurityModes,
     client_nonce : Nonces, sender_certificate : SenderCertificates,
     requested_lifetime : Lifetimes]

\* Requests turned down before any other field is read: one of each kind.
MalformedOpens ==
    LET r == [header |-> "Asymmetric", protocol_ok |-> TRUE, security_policy |-> "None",
              request_type |-> "Issue", security_mode |-> "None", client_nonce |-> 0,
              sender_certificate |-> "valid", requested_lifetime |-> 1]
    IN  {[r EXCEPT !.header = "Symmetric"], [r EXCEPT !.protocol_ok = FALSE]}

OpenRequests == WellFormedOpens \cup MalformedOpens

\* token_renewal_deadline() of the channel, named by the token it belongs to.
token_renewal_deadline(ch) == [kind |-> "renewal", token_id |-> ch.token_id]

OpenSecureChannel(request, send_ok) ==
    LET id == next_request_id
        res == open_secure_channel(request, secure_channel_state, secure_channel_id_handle,
                                   channel)
    IN  /\ NewRequest
        /\ opens < MaxOpens
        /\ opens' = opens + 1
        /\ secure_channel_state' = res.state
        /\ secure_channel_id_handle' = res.handle
        /\ channel' = res.channel
        /\ deadline' = IF res.ok THEN token_renewal_deadline(res.channel) ELSE deadline
        /\ diagnostics' = IF res.ok THEN diagnostics
                          ELSE inc_security_rejected_requests(inc_rejected_requests(diagnostics))
        /\ outbox' = enqueue_message_for_send(outbox, OpenMessage(request, id, res), send_ok)
        /\ closing' = (closing \/ ~res.ok \/ ~send_ok)
        /\ UNCHANGED <<running, sessions, timing, client_channel_state, type_tree, codec,
                       starter>>
        /\ FrameCalls

\* A faulty variant: CloseSecureChannel is answered before the connection closes.
CloseSecureChannelAnswered ==
    /\ NewRequest
    /\ outbox' = Append(outbox, ServiceResponse(next_request_id, HandleOf(next_request_id),
                                                "Good"))
    /\ closing' = TRUE
    /\ UNCHANGED <<running, diagnostics, sessions>>
    /\ FrameChannel
    /\ FrameCalls

CloseSecureChannel ==
    /\ NewRequest
    /\ closing' = TRUE
    /\ UNCHANGED <<running, outbox, diagnostics, sessions>>
    /\ FrameChannel
    /\ FrameCalls

\* A faulty variant: a response that cannot be enqueued is dropped and the
\* connection goes on.
process_service_result_lenient(status, request_id, send_ok) ==
    /\ diagnostics' = IF status = "Good" THEN diagnostics
                      ELSE inc_rejected_requests(diagnostics)
    /\ outbox' = enqueue_message_for_send(outbox,
                     IF status = "Good"
                     THEN ServiceResponse(request_id, HandleOf(request_id), "Good")
                     ELSE ServiceFault(request_id, HandleOf(request_id), status), send_ok)
    /\ UNCHANGED closing

\* process_service_result, with the Result as the status of its error or "Good".
process_service_result(status, request_id, send_ok) ==
    /\ diagnostics' = IF status = "Good" THEN diagnostics
                      ELSE IF IsSecurityStatus(status)
                      THEN inc_security_rejected_requests(inc_rejected_requests(diagnostics))
                      ELSE inc_rejected_requests(diagnostics)
    /\ outbox' = enqueue_message_for_send(outbox,
                     IF status = "Good"
                     THEN ServiceResponse(request_id, HandleOf(request_id), "Good")
                     ELSE ServiceFault(request_id, HandleOf(request_id), status), send_ok)
    /\ closing' = (closing \/ ~send_ok)

CreateSession(send_ok) ==
    LET free == Tokens \ DOMAIN sessions
        token == CHOOSE t \in free : \A u \in free : t <= u
    IN  /\ NewRequest
        /\ sessions' = IF free = {} THEN sessions
                       ELSE Extend(sessions, token, NewSession(channel.secure_channel_id))
        /\ process_service_result(IF free = {} THEN "BadTooManySessions" ELSE "Good",
                                  next_request_id, send_ok)
        /\ UNCHANGED running
        /\ FrameChannel
        /\ FrameCalls

ActivateSession(token, send_ok) ==
    /\ NewRequest
    /\ sessions' = IF token \in DOMAIN sessions
                   THEN [sessions EXCEPT ![token] =
                           [activated |-> TRUE,
                            secure_channel_id |-> channel.secure_channel_id,
                            timed_out |-> FALSE]]
                   ELSE sessions
    /\ process_service_result(
           IF token \in DOMAIN sessions THEN "Good" ELSE "BadSessionIdInvalid",
           next_request_id, send_ok)
    /\ UNCHANGED running
    /\ FrameChannel
    /\ FrameCalls

CloseSession(token, send_ok) ==
    /\ NewRequest
    /\ sessions' = [t \in DOMAIN sessions \ {token} |-> sessions[t]]
    /\ process_service_result(
           IF token \in DOMAIN sessions THEN "Good" ELSE "BadSessionIdInvalid",
           next_request_id, send_ok)
    /\ UNCHANGED running
    /\ FrameChannel
    /\ FrameCalls

\* GetEndpoints and FindServers: answered from the server's configuration.
Discovery(send_ok) ==
    /\ NewRequest
    /\ process_service_result("Good", next_request_id, send_ok)
    /\ UNCHANGED <<running, sessions>>
    /\ FrameChannel
    /\ FrameCalls

\* FindServersOnNetwork, RegisterServer, RegisterServer2.
Unsupported(send_ok) ==
    /\ NewRequest
    /\ outbox' = enqueue_message_for_send(outbox,
                     ServiceFault(next_request_id, HandleOf(next_request_id),
                                  "BadServiceUnsupported"), send_ok)
    /\ closing' = (closing \/ ~send_ok)
    /\ UNCHANGED <<running, diagnostics, sessions>>
    /\ FrameChannel
    /\ FrameCalls

\* handle_message returns a SyncMessage, an AsyncMessage or a PublishResponse.
HandlerVariants == {"Sync", "Async", "Publish"}

PendingEntry(request_id, request_handle, kind) ==
    [request_id |-> request_id, request_handle |-> request_handle, kind |-> kind]

RunningCall == [state |-> "running", status |-> "Good"]

\* Every other service request: validated, then given to the MessageHandler.
ServiceRequest(token, variant, status, send_ok) ==
    LET id == next_request_id
        validation == validate_request(token, sessions, channel)
    IN  /\ NewRequest
        /\ IF validation # "Good"
           THEN /\ diagnostics' = inc_security_rejected_requests(
                                      inc_rejected_requests(diagnostics))
                /\ outbox' = enqueue_message_for_send(outbox,
                                 ServiceFault(id, HandleOf(id), validation), send_ok)
                /\ closing' = (closing \/ ~send_ok)
                /\ FrameCalls
           ELSE /\ handled' = handled \cup {[request_id |-> id,
                                              authentication_token |-> token]}
                /\ IF variant = "Sync"
                   THEN /\ diagnostics' = response_metrics(diagnostics, status)
                        /\ outbox' = enqueue_message_for_send(outbox,
                                         ServiceResponse(id, HandleOf(id), status), send_ok)
                        /\ closing' = (closing \/ ~send_ok)
                        /\ UNCHANGED <<pending, calls, expired>>
                   ELSE /\ pending' = pending \cup
                              {PendingEntry(id, HandleOf(id),
                                   IF variant = "Async" THEN "call" ELSE "publish")}
                        /\ calls' = Extend(calls, id, RunningCall)
                        /\ UNCHANGED <<diagnostics, outbox, closing, expired>>
        /\ UNCHANGED <<running, sessions>>
        /\ FrameChannel

(***************************************************************************)
(* The pending set: one entry of pending_messages resolves and run()       *)
(* handles what it yields.                                                 *)
(***************************************************************************)
\* A faulty variant: the pending stream is polled in every iteration.
resp_fut_always_polled(pending_messages) == "Right"

\* resp_fut of run(): a future that never resolves when pending_messages is
\* empty (Left), the next element of the pending stream otherwise (Right).
resp_fut(pending_messages) == IF pending_messages = {} THEN "Left" ELSE "Right"

\* FuturesUnordered::next(): what the stream yields once an element is ready;
\* an empty stream is exhausted and yields None at once.
stream_next(pending_messages) == IF pending_messages = {} THEN "None" ELSE "Some"

\* A faulty variant: the pending set is served in request order, an entry waits
\* for every earlier entry.
PendingResponseInOrder(entry, send_ok) ==
    LET id == entry.request_id
        outcome == PollEntry(entry.kind, calls[id], id \in expired)
        message == IF outcome = "Result"
                   THEN ServiceResponse(id, entry.request_handle, calls[id].status)
                   ELSE ServiceFault(id, entry.request_handle, "BadTimeout")
    IN  /\ running
        /\ entry \in pending
        /\ \A other \in pending : other.request_id >= id
        /\ outcome # "Pending"
        /\ pending' = pending \ {entry}
        /\ calls' = IF outcome = "Timeout"
                    THEN [calls EXCEPT ![id].state = "aborted"]
                    ELSE calls
        /\ IF outcome = "Panic"
           THEN /\ outbox' = fatal_error(outbox, closing, "BadInternalError")
                /\ closing' = TRUE
                /\ UNCHANGED diagnostics
           ELSE /\ diagnostics' = response_metrics(diagnostics, message.status)
                /\ IF send_ok
                   THEN /\ outbox' = enqueue_message_for_send(outbox, message, TRUE)
                        /\ UNCHANGED closing
                   ELSE /\ outbox' = fatal_error(outbox, closing, EnqueueError)
                        /\ closing' = TRUE
        /\ UNCHANGED <<running, sessions, expired, handled, next_request_id>>
        /\ FrameChannel

PendingResponse(entry, send_ok) ==
    LET id == entry.request_id
        outcome == PollEntry(entry.kind, calls[id], id \in expired)
        message == IF outcome = "Result"
                   THEN ServiceResponse(id, entry.request_handle, calls[id].status)
                   ELSE ServiceFault(id, entry.request_handle, "BadTimeout")
    IN  /\ running
        /\ resp_fut(pending) = "Right"
        /\ entry \in pending
        /\ outcome # "Pending"
        /\ pending' = pending \ {entry}
        /\ calls' = IF outcome = "Timeout"
                    THEN [calls EXCEPT ![id].state = "aborted"]
                    ELSE calls
        /\ IF outcome = "Panic"
           THEN /\ outbox' = fatal_error(outbox, closing, "BadInternalError")
                /\ closing' = TRUE
                /\ UNCHANGED diagnostics
           ELSE /\ diagnostics' = response_metrics(diagnostics, message.status)
                /\ IF send_ok
                   THEN /\ outbox' = enqueue_message_for_send(outbox, message, TRUE)
                        /\ UNCHANGED closing
                   ELSE /\ outbox' = fatal_error(outbox, closing, EnqueueError)
                        /\ closing' = TRUE
        /\ UNCHANGED <<running, sessions, expired, handled, next_request_id>>
        /\ FrameChannel

(***************************************************************************)
(* The other branches of the select! in run().                             *)
(***************************************************************************)
\* sleep_until(self.deadline): the controller's deadline passes.
DeadlineFire ==
    /\ running
    /\ outbox' = fatal_error(outbox, closing, "BadTimeout")
    /\ closing' = TRUE
    /\ UNCHANGED <<running, diagnostics, sessions, next_request_id>>
    /\ FrameChannel
    /\ FrameCalls

\* A faulty variant: Close aborts the pending calls and drops their entries.
CommandCloseAborting ==
    /\ running
    /\ outbox' = fatal_error(outbox, closing, "BadServerHalted")
    /\ closing' = TRUE
    /\ pending' = {entry \in pending : entry.kind # "call"}
    /\ calls' = [id \in DOMAIN calls |->
                    IF \E entry \in pending : entry.kind = "call" /\ entry.request_id = id
                    THEN [calls[id] EXCEPT !.state = "aborted"]
                    ELSE calls[id]]
    /\ UNCHANGED <<running, diagnostics, sessions, next_request_id, expired, handled>>
    /\ FrameChannel

\* command.recv(): Close, or the command channel is gone.
CommandClose ==
    /\ running
    /\ outbox' = fatal_error(outbox, closing, "BadServerHalted")
    /\ closing' = TRUE
    /\ UNCHANGED <<running, diagnostics, sessions, next_request_id>>
    /\ FrameChannel
    /\ FrameCalls

RecoverableStatuses == {"BadRequestInterrupted"}
TransportStatuses == {"BadSequenceNumberInvalid"}

\* A faulty variant: a recoverable error is handled like a fatal one.
RecoverableErrorFatal(status, send_ok) ==
    /\ NewRequest
    /\ outbox' = fatal_error(outbox, closing, status)
    /\ closing' = TRUE
    /\ UNCHANGED <<running, diagnostics, sessions>>
    /\ FrameChannel
    /\ FrameCalls

\* TransportPollResult::RecoverableError(status, request id, request handle).
RecoverableError(status, send_ok) ==
    /\ NewRequest
    /\ IF send_ok
       THEN /\ outbox' = enqueue_message_for_send(outbox,
                             ServiceFault(next_request_id, HandleOf(next_request_id),
                                          status), TRUE)
            /\ UNCHANGED closing
       ELSE /\ outbox' = fatal_error(outbox, closing, EnqueueError)
            /\ closing' = TRUE
    /\ UNCHANGED <<running, diagnostics, sessions>>
    /\ FrameChannel
    /\ FrameCalls

\* A faulty variant: a fatal transport error is logged and the loop goes on.
TransportErrorIgnored(status) ==
    /\ running
    /\ UNCHANGED <<running, closing, outbox, diagnostics, sessions, next_request_id>>
    /\ FrameChannel
    /\ FrameCalls

\* TransportPollResult::Error(status).
TransportError(status) ==
    /\ running
    /\ outbox' = fatal_error(outbox, closing, status)
    /\ closing' = TRUE
    /\ UNCHANGED <<running, diagnostics, sessions, next_request_id>>
    /\ FrameChannel
    /\ FrameCalls

\* TransportPollResult::Closed: the loop is left.
TransportClosed ==
    /\ running
    /\ running' = FALSE
    /\ UNCHANGED <<closing, outbox, diagnostics, sessions, next_request_id>>
    /\ FrameChannel
    /\ FrameCalls

(***************************************************************************)
(* The environment: service calls finish or panic, time passes.            *)
(***************************************************************************)
\* A spawned call (or a publish reply) completes or panics; an aborted call may
\* still run to its end, and nobody waits for it any more.
HandlerComplete(id, call) ==
    /\ running
    /\ id \in DOMAIN calls
    /\ \/ calls[id].state = "running"
       \/ calls[id].state = "aborted" /\ call.state = "finished"
    /\ calls' = [calls EXCEPT ![id] = call]
    /\ UNCHANGED <<running, closing, outbox, diagnostics, sessions, pending, expired,
                   handled, next_request_id>>
    /\ FrameChannel

CompletedCalls ==
    [state : {"finished"}, status : HandlerStatuses] \cup
    {[state |-> "panicked", status |-> "Good"]}

\* The per-request deadline of a pending request passes.  It is computed for
\* every validated request, whether or not its future looks at it.
RequestDeadline(entry) ==
    /\ running
    /\ entry \in pending
    /\ entry.request_id \notin expired
    /\ expired' = expired \cup {entry.request_id}
    /\ UNCHANGED <<running, closing, outbox, diagnostics, sessions, pending, calls,
                   handled, next_request_id>>
    /\ FrameChannel

\* A session's timeout elapses.
SessionTimeout(token) ==
    /\ running
    /\ token \in DOMAIN sessions
    /\ ~sessions[token].timed_out
    /\ sessions' = [sessions EXCEPT ![token].timed_out = TRUE]
    /\ UNCHANGED <<running, closing, outbox, diagnostics, next_request_id>>
    /\ FrameChannel
    /\ FrameCalls

(***************************************************************************)
(* The specifications.                                                     *)
(***************************************************************************)
\* The SessionManager is shared by the server's connections: when a connection
\* starts it may hold a session that another connection created, and perhaps
\* activated, on its own secure channel.
OtherChannelId == 9

InitialSessions ==
    {EmptyTable} \cup
    UNION {[{t} -> [activated : BOOLEAN, secure_channel_id : {OtherChannelId},
                    timed_out : {FALSE}]] : t \in Tokens}

InitController ==
    /\ running = TRUE
    /\ closing = FALSE
    /\ outbox = <<>>
    /\ secure_channel_state = [issued |-> FALSE, renew_count |-> 0, last_token_id |-> 0]
    /\ secure_channel_id_handle = FirstSecureChannelId
    /\ channel = [secure_channel_id |-> 0, token_id |-> 0, security_mode |-> "None",
                  token_lifetime |-> 0, remote_nonce |-> 0]
    /\ deadline = [kind |-> "hello", token_id |-> 0]
    /\ diagnostics \in [enabled : BOOLEAN, rejected : {0}, security_rejected : {0}]
    /\ sessions \in InitialSessions
    /\ pending = {}
    /\ calls = EmptyTable
    /\ expired = {}
    /\ handled = {}
    /\ next_request_id = 1
    /\ opens = 0

\* Every variable of the server's connection, and the DataValue in the codec.
FrameServer ==
    UNCHANGED <<running, closing, outbox, secure_channel_state, secure_channel_id_handle,
                channel, deadline, diagnostics, sessions, pending, calls, expired,
                handled, next_request_id, opens, timing, codec, starter>>


(***************************************************************************)
(* The client's SecureChannelState (transport/state.rs): the request       *)
(* handle counter, the clock offset and the security token it installs,    *)
(* used by several callers at once through a shared reference.             *)
(***************************************************************************)
\* SecureChannelState::FIRST_REQUEST_HANDLE
FIRST_REQUEST_HANDLE == 1

\* The callers holding a reference to the one SecureChannelState.
Callers == 1..MaxCallers

\* DateTime::null(), the timestamp a server leaves unset.
NullTime == 0
\* The clock readings and the timestamps of a response.
Times == BaseTime..(BaseTime + MaxSkew)

\* The responses handed to end_issue_or_renew_secure_channel.
ClientResponses ==
    [is_open : BOOLEAN, timestamp : {NullTime} \cup Times, created_at : Times]

NoResponse == [is_open |-> FALSE, timestamp |-> NullTime, created_at |-> NullTime]

\* A caller that is not inside any function of SecureChannelState.
IdleCaller ==
    [pc |-> "idle", response |-> NoResponse, offset |-> 0, loaded |-> 0,
     created_at |-> NullTime, result |-> "None"]

\* SecureChannelState::new and the SecureChannel it is given.
NewClient(ignore_clock_skew, secured) ==
    [ignore_clock_skew |-> ignore_clock_skew,
     client_offset |-> 0,
     request_handle |-> FIRST_REQUEST_HANDLE,
     secure_channel |-> [secured |-> secured, client_offset |-> 0, created_at |-> NullTime],
     callers |-> [p \in Callers |-> IdleCaller],
     handles |-> <<>>,
     responses |-> 0,
     updates |-> 0,
     applied |-> 0,
     overlapped |-> FALSE]

\* No client is being looked at.
NoClient == NewClient(FALSE, FALSE)

\* AtomicHandle::next() that hands out the value it holds without moving on.
AtomicHandleRepeat(handle) == [value |-> handle, next |-> handle]

\* AtomicHandle::next(): one atomic step hands out the value and moves on.
AtomicHandleNext(handle) == [value |-> handle, next |-> handle + 1]

\* request_handle(): the next handle, for a caller that builds its own header.
request_handle(p) ==
    LET state == client_channel_state
        got == AtomicHandleNext(state.request_handle)
    IN  /\ state.callers[p].pc = "idle"
        /\ Len(state.handles) < MaxHandles
        /\ client_channel_state' =
               [state EXCEPT !.request_handle = got.next,
                             !.handles = Append(@, got.value)]
        /\ FrameServer /\ UNCHANGED type_tree

\* make_request_header, up to its timestamp: the stored offset is loaded.
make_request_header_timestamp(p) ==
    LET state == client_channel_state
    IN  /\ state.callers[p].pc = "idle"
        /\ Len(state.handles) < MaxHandles
        /\ client_channel_state' =
               [state EXCEPT !.callers[p].pc = "header",
                             !.callers[p].loaded = state.client_offset]
        /\ FrameServer /\ UNCHANGED type_tree

\* make_request_header, from its request_handle on: the header is complete.
make_request_header(p) ==
    LET state == client_channel_state
        got == AtomicHandleNext(state.request_handle)
    IN  /\ state.callers[p].pc = "header"
        /\ client_channel_state' =
               [state EXCEPT !.request_handle = got.next,
                             !.handles = Append(@, got.value),
                             !.callers[p] = IdleCaller]
        /\ FrameServer /\ UNCHANGED type_tree

\* The clock offset is computed whether or not clock skew is to be ignored.
AdjustsClockAlways(ignore_clock_skew, response) == response.timestamp # NullTime

\* The response makes end_issue_or_renew_secure_channel compute a clock offset.
AdjustsClock(ignore_clock_skew, response) ==
    ignore_clock_skew /\ response.timestamp # NullTime

\* end_issue_or_renew_secure_channel, up to the call of set_client_offset or,
\* without one, up to the write lock; now is the reading of DateTime::now().
end_issue_or_renew_secure_channel(p, response, now) ==
    LET state == client_channel_state
        offset == response.timestamp - now
    IN  /\ state.callers[p].pc = "idle"
        /\ state.responses < MaxResponses
        /\ client_channel_state' =
               IF ~response.is_open
               THEN [state EXCEPT !.responses = @ + 1,
                                  !.callers[p].result = "Err"]
               ELSE IF AdjustsClock(state.ignore_clock_skew, response)
               THEN [state EXCEPT !.responses = @ + 1,
                                  !.callers[p] =
                                      [pc |-> "load", response |-> response,
                                       offset |-> offset, loaded |-> 0,
                                       created_at |-> response.created_at - offset,
                                       result |-> "None"]]
               ELSE [state EXCEPT !.responses = @ + 1,
                                  !.callers[p] =
                                      [pc |-> "install", response |-> response,
                                       offset |-> 0, loaded |-> 0,
                                       created_at |-> response.created_at,
                                       result |-> "None"]]
        /\ FrameServer /\ UNCHANGED type_tree

\* set_client_offset, first half: client_offset.load().
set_client_offset_load(p) ==
    LET state == client_channel_state
    IN  /\ state.callers[p].pc = "load"
        /\ client_channel_state' =
               [state EXCEPT !.callers[p].pc = "store",
                             !.callers[p].loaded = state.client_offset,
                             !.overlapped =
                                 @ \/ \E q \in Callers \ {p} : state.callers[q].pc = "store"]
        /\ FrameServer /\ UNCHANGED type_tree

\* set_client_offset that stores the new offset in place of the sum.
set_client_offset_replacing(p) ==
    LET state == client_channel_state
    IN  /\ state.callers[p].pc = "store"
        /\ client_channel_state' =
               [state EXCEPT !.client_offset = state.callers[p].offset,
                             !.updates = @ + 1,
                             !.applied = @ + state.callers[p].offset,
                             !.callers[p].pc = "install"]
        /\ FrameServer /\ UNCHANGED type_tree

\* set_client_offset, second half: client_offset.store(loaded + offset).
set_client_offset(p) ==
    LET state == client_channel_state
    IN  /\ state.callers[p].pc = "store"
        /\ client_channel_state' =
               [state EXCEPT !.client_offset =
                                 state.callers[p].loaded + state.callers[p].offset,
                             !.updates = @ + 1,
                             !.applied = @ + state.callers[p].offset,
                             !.callers[p].pc = "install"]
        /\ FrameServer /\ UNCHANGED type_tree

\* end_issue_or_renew_secure_channel, under the write lock of the channel: the
\* offset and the token are installed, then the server's nonce is taken over
\* when the channel signs its messages.
install_security_token(p, nonce_ok) ==
    LET state == client_channel_state
    IN  /\ state.callers[p].pc = "install"
        /\ client_channel_state' =
               [state EXCEPT !.secure_channel.client_offset = state.client_offset,
                             !.secure_channel.created_at = state.callers[p].created_at,
                             !.callers[p] =
                                 [IdleCaller EXCEPT !.result =
                                     IF state.secure_channel.secured /\ ~nonce_ok
                                     THEN "Err" ELSE "Ok"]]
        /\ FrameServer /\ UNCHANGED type_tree

(***************************************************************************)
(* DefaultTypeTree (type_tree.rs): the node classes and the two subtype    *)
(* maps.  The property maps, which add_type_node leaves alone and          *)
(* is_subtype_of never reads, are left out.                                *)
(***************************************************************************)
\* BaseObjectType, References, BaseVariableType and BaseDataType.
RootTypes == 1..4
\* The node ids: the four roots and the ids of the types added later.
NodeIds == 1..(4 + MaxNodes)

\* The node classes that take part in the subtype relation.
TypeClasses == {"DataType", "ObjectType", "ReferenceType", "VariableType"}
\* The node classes handed to add_type_node: a type class and another one.
NodeClasses == {"ObjectType", "Object"}

\* HashMap::insert
insert(map, key, value) ==
    [k \in DOMAIN map \cup {key} |-> IF k = key THEN value ELSE map[k]]

\* HashMap::remove
remove_key(map, key) == [k \in DOMAIN map \ {key} |-> map[k]]

\* DefaultTypeTree::new
NewTypeTree ==
    [nodes |-> [n \in RootTypes |->
                   CASE n = 1 -> "ObjectType"
                     [] n = 2 -> "ReferenceType"
                     [] n = 3 -> "VariableType"
                     [] OTHER -> "DataType"],
     subtypes_by_source |-> EmptyTable,
     subtypes_by_target |-> EmptyTable,
     ops |-> 0]

\* The type tree of a server nobody registers a type with.
NoTypeTree == NewTypeTree

\* The loop of is_subtype_of from node on; seen holds the nodes the loop has
\* left behind: coming back to one of them, it never ends.
RECURSIVE walk(_, _, _, _)
walk(tree, node, ancestor, seen) ==
    IF node = ancestor THEN "true"
    ELSE IF node \notin DOMAIN tree.nodes THEN "false"
    ELSE IF tree.nodes[node] \notin TypeClasses THEN "false"
    ELSE IF node \notin DOMAIN tree.subtypes_by_target THEN "false"
    ELSE IF node \in seen THEN "never returns"
    ELSE walk(tree, tree.subtypes_by_target[node], ancestor, seen \cup {node})

\* is_subtype_of that looks at the parent of child and no further.
is_direct_subtype_of(tree, child, ancestor) ==
    IF child = ancestor THEN "true"
    ELSE IF child \notin DOMAIN tree.nodes THEN "false"
    ELSE IF tree.nodes[child] \notin TypeClasses THEN "false"
    ELSE IF child \notin DOMAIN tree.subtypes_by_target THEN "false"
    ELSE IF tree.subtypes_by_target[child] = ancestor THEN "true" ELSE "false"

\* DefaultTypeTree::is_subtype_of
is_subtype_of(tree, child, ancestor) == walk(tree, child, ancestor, {})

\* DefaultTypeTree::add_type_node
add_type_node(id, parent, node_class) ==
    /\ type_tree.ops < MaxTreeOps
    /\ type_tree' =
           [type_tree EXCEPT
               !.nodes = insert(@, id, node_class),
               !.subtypes_by_source =
                   insert(@, parent,
                          (IF parent \in DOMAIN @ THEN @[parent] ELSE {}) \cup {id}),
               !.subtypes_by_target = insert(@, id, parent),
               !.ops = @ + 1]
    /\ FrameServer /\ UNCHANGED client_channel_state

\* DefaultTypeTree::remove, for a node id that names no property.
remove(node_id) ==
    /\ type_tree.ops < MaxTreeOps
    /\ type_tree' =
           IF node_id \in DOMAIN type_tree.nodes
           THEN LET has_parent == node_id \in DOMAIN type_tree.subtypes_by_target
                    parent == type_tree.subtypes_by_target[node_id]
                IN  [type_tree EXCEPT
                        !.nodes = remove_key(@, node_id),
                        !.subtypes_by_target = remove_key(@, node_id),
                        !.subtypes_by_source =
                            IF has_parent /\ parent \in DOMAIN @
                            THEN [@ EXCEPT ![parent] = @ \ {node_id}]
                            ELSE @,
                        !.ops = @ + 1]
           ELSE [type_tree EXCEPT !.ops = @ + 1]
    /\ FrameServer /\ UNCHANGED client_channel_state

(***************************************************************************)
(* DataValue and its binary codec (data_value.rs).  An Option is a         *)
(* sequence of at most one element; the stream is the sequence of the      *)
(* items written, the encoding mask first.  The codecs of the fields       *)
(* themselves (Variant, StatusCode bits, DateTime ticks, u16) write and    *)
(* read one item each.                                                     *)
(***************************************************************************)
\* DataValueFlags
HAS_VALUE == 1
HAS_STATUS == 2
HAS_SOURCE_TIMESTAMP == 4
HAS_SERVER_TIMESTAMP == 8
HAS_SOURCE_PICOSECONDS == 16
HAS_SERVER_PICOSECONDS == 32

\* DataValueFlags::contains
contains(mask, flag) == (mask \div flag) % 2 = 1

\* DataValueFlags::from_bits_truncate: the bits of no flag are dropped.
from_bits_truncate(bits) == bits % 64

\* Option::None, Option::Some, Option::is_some, Option::unwrap
None == <<>>
Some(v) == <<v>>
is_some(option) == option # <<>>
unwrap(option) == option[1]

\* The values a field of a DataValue holds when it is present.
FieldValues == 1..MaxField
\* The ticks of the timestamps.
Ticks == BaseTime..(BaseTime + MaxField - 1)
Options(values) == {None} \cup {Some(v) : v \in values}

\* struct DataValue
DataValues ==
    [value : Options(FieldValues), status : Options(FieldValues),
     source_timestamp : Options(Ticks), source_picoseconds : Options(FieldValues),
     server_timestamp : Options(Ticks), server_picoseconds : Options(FieldValues)]

\* The client offsets of the decoding context.
ClientOffsets == 0..MaxOffset

\* DataValue::encoding_mask that sets a picoseconds bit whenever the
\* picoseconds are present.
encoding_mask_flat(d) ==
      (IF is_some(d.value) THEN HAS_VALUE ELSE 0)
    + (IF is_some(d.status) THEN HAS_STATUS ELSE 0)
    + (IF is_some(d.source_timestamp) THEN HAS_SOURCE_TIMESTAMP ELSE 0)
    + (IF is_some(d.source_picoseconds) THEN HAS_SOURCE_PICOSECONDS ELSE 0)
    + (IF is_some(d.server_timestamp) THEN HAS_SERVER_TIMESTAMP ELSE 0)
    + (IF is_some(d.server_picoseconds) THEN HAS_SERVER_PICOSECONDS ELSE 0)

\* DataValue::encoding_mask
encoding_mask(d) ==
      (IF is_some(d.value) THEN HAS_VALUE ELSE 0)
    + (IF is_some(d.status) THEN HAS_STATUS ELSE 0)
    + (IF is_some(d.source_timestamp)
       THEN HAS_SOURCE_TIMESTAMP
            + (IF is_some(d.source_picoseconds) THEN HAS_SOURCE_PICOSECONDS ELSE 0)
       ELSE 0)
    + (IF is_some(d.server_timestamp)
       THEN HAS_SERVER_TIMESTAMP
            + (IF is_some(d.server_picoseconds) THEN HAS_SERVER_PICOSECONDS ELSE 0)
       ELSE 0)

\* BinaryEncodable for DataValue: the mask, then the fields the mask names.
encode(d) ==
    LET mask == encoding_mask(d)
    IN  <<mask>>
        \o (IF contains(mask, HAS_VALUE) THEN <<unwrap(d.value)>> ELSE <<>>)
        \o (IF contains(mask, HAS_STATUS) THEN <<unwrap(d.status)>> ELSE <<>>)
        \o (IF contains(mask, HAS_SOURCE_TIMESTAMP)
            THEN <<unwrap(d.source_timestamp)>>
                 \o (IF contains(mask, HAS_SOURCE_PICOSECONDS)
                     THEN <<unwrap(d.source_picoseconds)>> ELSE <<>>)
            ELSE <<>>)
        \o (IF contains(mask, HAS_SERVER_TIMESTAMP)
            THEN <<unwrap(d.server_timestamp)>>
                 \o (IF contains(mask, HAS_SERVER_PICOSECONDS)
                     THEN <<unwrap(d.server_picoseconds)>> ELSE <<>>)
            ELSE <<>>)

\* DateTime::decode: the ticks read, moved by the client offset of the context.
DateTimeDecode(ticks, client_offset) == ticks - client_offset

\* One field of decode: the next item of the stream when the mask names the
\* field; failed when the stream has ended.
ReadField(present, stream, pos) ==
    IF ~present THEN [item |-> None, next |-> pos, failed |-> FALSE]
    ELSE IF pos > Len(stream) THEN [item |-> None, next |-> pos, failed |-> TRUE]
    ELSE [item |-> Some(stream[pos]), next |-> pos + 1, failed |-> FALSE]

\* An EncodingResult that is an error.
DecodingError == [error |-> TRUE]

\* decode, with the client offsets its two timestamps are decoded under.
DecodeWith(stream, source_offset, server_offset) ==
    IF stream = <<>> THEN DecodingError
    ELSE
    LET encoding_mask_read == from_bits_truncate(stream[1])
        value == ReadField(contains(encoding_mask_read, HAS_VALUE), stream, 2)
        status == ReadField(contains(encoding_mask_read, HAS_STATUS), stream, value.next)
        source_timestamp ==
            ReadField(contains(encoding_mask_read, HAS_SOURCE_TIMESTAMP), stream, status.next)
        source_picoseconds ==
            ReadField(contains(encoding_mask_read, HAS_SOURCE_PICOSECONDS), stream,
                      source_timestamp.next)
        server_timestamp ==
            ReadField(contains(encoding_mask_read, HAS_SERVER_TIMESTAMP), stream,
                      source_picoseconds.next)
        server_picoseconds ==
            ReadField(contains(encoding_mask_read, HAS_SERVER_PICOSECONDS), stream,
                      server_timestamp.next)
    IN  IF \/ value.failed \/ status.failed \/ source_timestamp.failed
           \/ source_picoseconds.failed \/ server_timestamp.failed
           \/ server_picoseconds.failed
        THEN DecodingError
        ELSE [error |-> FALSE,
              value |-> value.item,
              status |-> status.item,
              source_timestamp |->
                  IF is_some(source_timestamp.item)
                  THEN Some(DateTimeDecode(unwrap(source_timestamp.item), source_offset))
                  ELSE None,
              source_picoseconds |->
                  IF is_some(source_timestamp.item) THEN source_picoseconds.item ELSE None,
              server_timestamp |->
                  IF is_some(server_timestamp.item)
                  THEN Some(DateTimeDecode(unwrap(server_timestamp.item), server_offset))
                  ELSE None,
              server_picoseconds |->
                  IF is_some(server_timestamp.item) THEN server_picoseconds.item ELSE None]

\* decode that reads the source timestamp under the context's own offset.
decode_adjusting_source(stream, client_offset) ==
    DecodeWith(stream, client_offset, client_offset)

\* BinaryDecodable for DataValue: the source timestamp is read under
\* ctx.with_zero_offset(), the server timestamp under ctx.
decode(stream, client_offset) == DecodeWith(stream, 0, client_offset)

\* No DataValue is being encoded.
NoCodec ==
    [pc |-> "idle",
     value |-> [value |-> None, status |-> None, source_timestamp |-> None,
                source_picoseconds |-> None, server_timestamp |-> None,
                server_picoseconds |-> None],
     client_offset |-> 0, stream |-> <<>>, decoded |-> DecodingError]

\* Every variable but the codec's.
FrameCodec ==
    UNCHANGED <<running, closing, outbox, secure_channel_state, secure_channel_id_handle,
                channel, deadline, diagnostics, sessions, pending, calls, expired,
                handled, next_request_id, opens, timing, client_channel_state, type_tree,
                starter>>

\* The DataValue is encoded into the stream.
Encode ==
    /\ codec.pc = "value"
    /\ codec' = [codec EXCEPT !.pc = "encoded", !.stream = encode(codec.value)]
    /\ FrameCodec

\* The stream is decoded under the context's client offset.
Decode ==
    /\ codec.pc = "encoded"
    /\ codec' = [codec EXCEPT !.pc = "decoded",
                              !.decoded = decode(codec.stream, codec.client_offset)]
    /\ FrameCodec

\* The elements of a set one after the other.  The order in which a HashSet
\* hands out its elements is not specified; the smallest comes first here, and
\* only the elements and how often they occur are looked at.
RECURSIVE iter(_)
iter(set) ==
    IF set = {} THEN <<>>
    ELSE LET first == CHOOSE n \in set : \A m \in set : n <= m
         IN  <<first>> \o iter(set \ {first})

\* The most nodes get_all_children can list on a tree without a cycle: past
\* that many, its loop is going round a cycle and never ends.
ListLimit == 2 ^ Cardinality(NodeIds)

\* The loop of get_all_children: roots is its stack, res its result so far.
RECURSIVE get_all_children_loop(_, _, _)
get_all_children_loop(tree, roots, res) ==
    IF roots = <<>> THEN [returns |-> TRUE, res |-> res]
    ELSE IF Len(res) >= ListLimit THEN [returns |-> FALSE, res |-> <<>>]
    ELSE LET root == roots[Len(roots)]
             popped == SubSeq(roots, 1, Len(roots) - 1)
             children == IF root \in DOMAIN tree.subtypes_by_source
                         THEN tree.subtypes_by_source[root] ELSE {}
         IN  get_all_children_loop(tree, popped \o iter(children), Append(res, root))

\* DefaultTypeTree::get_all_children
get_all_children(tree, root) == get_all_children_loop(tree, <<root>>, <<>>)

(***************************************************************************)
(* SessionStarter.run: the select! between the command channel and the     *)
(* connect future, the cancellation, and the hand-over to the              *)
(* SessionController.                                                      *)
(***************************************************************************)
\* A SessionStarter whose connector has returned a transport and whose
\* SessionController is running.
Started ==
    [pc |-> "controller", command |-> "None", connect |-> "Ok", cancelled |-> FALSE,
     close_first |-> FALSE]

\* SessionStarter.run at its select!, the connect future not yet ready.
NewStarter ==
    [pc |-> "select", command |-> "None", connect |-> "Pending", cancelled |-> FALSE,
     close_first |-> FALSE]

\* Every variable but the starter's.
FrameStarter ==
    UNCHANGED <<running, closing, outbox, secure_channel_state, secure_channel_id_handle,
                channel, deadline, diagnostics, sessions, pending, calls, expired,
                handled, next_request_id, opens, timing, client_channel_state, type_tree,
                codec>>

\* The server sends Close on the command channel, or drops its sender.
CommandSent(command) ==
    /\ starter.pc # "controller"
    /\ starter.command = "None"
    /\ starter' = [starter EXCEPT !.command = command,
                                  !.close_first = (starter.connect = "Pending")]
    /\ FrameStarter

\* The connect future becomes ready: the connector has its transport, or has
\* failed, or has given up after the cancellation.
ConnectFinishes(result) ==
    /\ starter.pc \in {"select", "cancelling"}
    /\ starter.connect = "Pending"
    /\ starter' = [starter EXCEPT !.connect = result]
    /\ FrameStarter

\* A faulty variant: the command branch goes on to run a SessionController.
SelectCommandThenRun ==
    /\ starter.pc = "select"
    /\ starter.command # "None"
    /\ starter' = [starter EXCEPT !.cancelled = TRUE, !.pc = "controller"]
    /\ FrameStarter

\* The select! takes its command branch: token.cancel(), then fut.await.
SelectCommand ==
    /\ starter.pc = "select"
    /\ starter.command # "None"
    /\ starter' = [starter EXCEPT !.cancelled = TRUE, !.pc = "cancelling"]
    /\ FrameStarter

\* fut.await of the command branch returns; its result is dropped and run()
\* returns.
ConnectAwaited ==
    /\ starter.pc = "cancelling"
    /\ starter.connect # "Pending"
    /\ starter' = [starter EXCEPT !.pc = "returned"]
    /\ FrameStarter

\* The select! takes its connect branch: with a transport the
\* SessionController is created and run, with an error run() returns.
SelectConnect ==
    /\ starter.pc = "select"
    /\ starter.connect # "Pending"
    /\ starter' = [starter EXCEPT !.pc = IF starter.connect = "Ok"
                                         THEN "controller" ELSE "returned"]
    /\ FrameStarter

\* No per-request deadline is being looked at.
NoTiming ==
    [received_at |-> 0, timeout_hint |-> 0, max_timeout_ms |-> 0, deadline |-> NoDeadline]

Init ==
    /\ InitController
    /\ timing = NoTiming
    /\ client_channel_state = NoClient
    /\ type_tree = NoTypeTree
    /\ codec = NoCodec
    /\ starter = Started

Next ==
    \/ \E request \in OpenRequests, send_ok \in BOOLEAN : OpenSecureChannel(request, send_ok)
    \/ CloseSecureChannel
    \/ \E send_ok \in BOOLEAN : CreateSession(send_ok)
    \/ \E token \in Tokens \cup {NullToken}, send_ok \in BOOLEAN :
          ActivateSession(token, send_ok)
    \/ \E token \in Tokens \cup {NullToken}, send_ok \in BOOLEAN :
          CloseSession(token, send_ok)
    \/ \E send_ok \in BOOLEAN : Discovery(send_ok)
    \/ \E send_ok \in BOOLEAN : Unsupported(send_ok)
    \/ \E token \in Tokens \cup {NullToken}, variant \in HandlerVariants,
          status \in HandlerStatuses, send_ok \in BOOLEAN :
          ServiceRequest(token, variant, status, send_ok)
    \/ \E entry \in pending, send_ok \in BOOLEAN : PendingResponse(entry, send_ok)
    \/ DeadlineFire
    \/ CommandClose
    \/ \E status \in RecoverableStatuses, send_ok \in BOOLEAN :
          RecoverableError(status, send_ok)
    \/ \E status \in TransportStatuses : TransportError(status)
    \/ TransportClosed
    \/ \E id \in DOMAIN calls, call \in CompletedCalls : HandlerComplete(id, call)
    \/ \E entry \in pending : RequestDeadline(entry)
    \/ \E token \in DOMAIN sessions : SessionTimeout(token)

Spec == Init /\ [][Next]_vars

\* A connection on which the client only opens, renews and closes the secure
\* channel, on a server that holds no session; the connection ends by its
\* deadline, by the server's Close command or by the transport closing.
NextChannel ==
    \/ \E request \in OpenRequests, send_ok \in BOOLEAN : OpenSecureChannel(request, send_ok)
    \/ CloseSecureChannel
    \/ DeadlineFire
    \/ CommandClose
    \/ TransportClosed

InitChannel == Init /\ sessions = EmptyTable

SpecChannel == InitChannel /\ [][NextChannel]_vars

\* A connection whose client opens the secure channel before it asks for
\* anything else and whose only OpenSecureChannel requests are plain Issues,
\* each answered: the session and service requests, the pending set, the
\* environment.
PlainIssue ==
    [header |-> "Asymmetric", protocol_ok |-> TRUE, security_policy |-> "None",
     request_type |-> "Issue", security_mode |-> "None", client_nonce |-> 0,
     sender_certificate |-> "valid", requested_lifetime |-> 3]

ChannelRequests ==
    \/ CloseSecureChannel
    \/ \E send_ok \in BOOLEAN : CreateSession(send_ok)
    \/ \E token \in Tokens \cup {NullToken}, send_ok \in BOOLEAN :
          ActivateSession(token, send_ok)
    \/ \E token \in Tokens \cup {NullToken}, send_ok \in BOOLEAN :
          CloseSession(token, send_ok)
    \/ \E send_ok \in BOOLEAN : Discovery(send_ok)
    \/ \E send_ok \in BOOLEAN : Unsupported(send_ok)
    \/ \E token \in Tokens \cup {NullToken}, variant \in HandlerVariants,
          status \in HandlerStatuses, send_ok \in BOOLEAN :
          ServiceRequest(token, variant, status, send_ok)
    \/ \E status \in RecoverableStatuses, send_ok \in BOOLEAN :
          RecoverableError(status, send_ok)

NextService ==
    \/ OpenSecureChannel(PlainIssue, TRUE)
    \/ secure_channel_state.issued /\ ChannelRequests
    \/ \E entry \in pending, send_ok \in BOOLEAN : PendingResponse(entry, send_ok)
    \/ DeadlineFire
    \/ CommandClose
    \/ \E status \in TransportStatuses : TransportError(status)
    \/ TransportClosed
    \/ \E id \in DOMAIN calls, call \in CompletedCalls : HandlerComplete(id, call)
    \/ \E entry \in pending : RequestDeadline(entry)
    \/ \E token \in DOMAIN sessions : SessionTimeout(token)

SpecService == Init /\ [][NextService]_vars

(***************************************************************************)
(* The service connection with an unreliable send queue for the            *)
(* OpenSecureChannel answers too: the first Issue, and the two requests    *)
(* turned down before any field is read, may fail to be enqueued.          *)
(***************************************************************************)
UnsentOpens == {PlainIssue} \cup MalformedOpens

NextEnqueue ==
    \/ NextService
    \/ \E request \in UnsentOpens : OpenSecureChannel(request, FALSE)

SpecEnqueue == Init /\ [][NextEnqueue]_vars

(***************************************************************************)
(* The per-request deadline computation on its own: the receipt time, the  *)
(* client's timeout hint and the configured max_timeout_ms are drawn from  *)
(* bounded sets, and the one step applies the computation of               *)
(* process_request to them.                                                *)
(***************************************************************************)
Millis == 0..MaxMillis
ReceiptTimes == 0..MaxReceipt

InitDeadline ==
    /\ InitController
    /\ timing \in [received_at : ReceiptTimes, timeout_hint : Millis,
                    max_timeout_ms : Millis, deadline : {NoDeadline}]
    /\ client_channel_state = NoClient
    /\ type_tree = NoTypeTree
    /\ codec = NoCodec
    /\ starter = Started

ComputeDeadline ==
    /\ timing.deadline = NoDeadline
    /\ timing' = [timing EXCEPT !.deadline =
                      request_deadline(timing.received_at, timing.timeout_hint,
                                       timing.max_timeout_ms)]
    /\ UNCHANGED <<running, closing, outbox, diagnostics, sessions, handled,
                   next_request_id>>
    /\ UNCHANGED <<secure_channel_state, secure_channel_id_handle, channel, deadline, opens,
                   client_channel_state, type_tree, codec, starter>>
    /\ FrameCalls

NextDeadline == ComputeDeadline

SpecDeadline == InitDeadline /\ [][NextDeadline]_vars

(***************************************************************************)
(* The client's SecureChannelState on its own: its callers run the         *)
(* functions of state.rs step by step, in any interleaving.                *)
(***************************************************************************)
InitClient ==
    /\ InitController
    /\ timing = NoTiming
    /\ type_tree = NoTypeTree
    /\ codec = NoCodec
    /\ starter = Started
    /\ client_channel_state \in
           {NewClient(ignore_clock_skew, secured) :
                ignore_clock_skew \in BOOLEAN, secured \in BOOLEAN}

NextClient ==
    \/ \E p \in Callers : request_handle(p)
    \/ \E p \in Callers : make_request_header_timestamp(p)
    \/ \E p \in Callers : make_request_header(p)
    \/ \E p \in Callers, response \in ClientResponses, now \in Times :
          end_issue_or_renew_secure_channel(p, response, now)
    \/ \E p \in Callers : set_client_offset_load(p)
    \/ \E p \in Callers : set_client_offset(p)
    \/ \E p \in Callers, nonce_ok \in BOOLEAN : install_security_token(p, nonce_ok)

SpecClient == InitClient /\ [][NextClient]_vars

(***************************************************************************)
(* The type tree on its own: any sequence of add_type_node and remove.     *)
(***************************************************************************)
InitTypeTree ==
    /\ InitController
    /\ timing = NoTiming
    /\ client_channel_state = NoClient
    /\ codec = NoCodec
    /\ starter = Started
    /\ type_tree = NewTypeTree

NextTypeTree ==
    \/ \E id \in NodeIds, parent \in NodeIds, node_class \in NodeClasses :
          add_type_node(id, parent, node_class)
    \/ \E node_id \in NodeIds : remove(node_id)

SpecTypeTree == InitTypeTree /\ [][NextTypeTree]_vars

(***************************************************************************)
(* The DataValue codec on its own: a DataValue with any subset of its      *)
(* fields present and the client offset of the decoding context are drawn  *)
(* from bounded sets; the value is encoded and the stream decoded.         *)
(***************************************************************************)
InitCodec ==
    /\ InitController
    /\ timing = NoTiming
    /\ client_channel_state = NoClient
    /\ type_tree = NoTypeTree
    /\ starter = Started
    /\ codec \in [pc : {"value"}, value : DataValues, client_offset : ClientOffsets,
                  stream : {<<>>}, decoded : {DecodingError}]

NextCodec == Encode \/ Decode

SpecCodec == InitCodec /\ [][NextCodec]_vars

(***************************************************************************)
(* SessionStarter.run from its start: the command channel and the connect  *)
(* future in any order, then the SessionController on the transport.       *)
(***************************************************************************)
InitStarter ==
    /\ InitController
    /\ sessions = EmptyTable
    /\ timing = NoTiming
    /\ client_channel_state = NoClient
    /\ type_tree = NoTypeTree
    /\ codec = NoCodec
    /\ starter = NewStarter

\* controller.run(command), on a connection whose client sends plain or
\* malformed OpenSecureChannel requests.
RunController ==
    /\ starter.pc = "controller"
    /\ \/ \E request \in UnsentOpens, send_ok \in BOOLEAN :
              OpenSecureChannel(request, send_ok)
       \/ CloseSecureChannel
       \/ DeadlineFire
       \/ CommandClose
       \/ TransportClosed

NextStarter ==
    \/ \E command \in {"Close", "Closed"} : CommandSent(command)
    \/ \E result \in {"Ok", "Err"} : ConnectFinishes(result)
    \/ SelectCommand
    \/ ConnectAwaited
    \/ SelectConnect
    \/ RunController

SpecStarter == InitStarter /\ [][NextStarter]_vars

(***************************************************************************)
(* Properties of the OpenSecureChannel state machine (SpecChannel).        *)
(***************************************************************************)
\* The good OpenSecureChannelResponses sent so far, by their place in outbox.
OpenResponseIndices ==
    {i \in DOMAIN outbox : outbox[i].kind = "OpenSecureChannelResponse"}

\* This step processed an OpenSecureChannel request and its answer was sent.
OpenAnswered ==
    /\ opens' = opens + 1
    /\ Len(outbox') = Len(outbox) + 1

\* C1: for every sequence of OpenSecureChannel requests, accepted or rejected,
\* the token_ids of successive good OpenSecureChannelResponses are strictly
\* increasing.  Every response sent carries a token_id above all earlier ones and
\* no larger than the counter, and each new response carries the counter
\* advanced by this request: so requests rejected in between cannot bring a
\* token_id back.
TokenIdsStrictlyIncreasing ==
    /\ [](/\ \A i, j \in OpenResponseIndices :
                i < j => outbox[i].token_id < outbox[j].token_id
          /\ \A i \in OpenResponseIndices :
                outbox[i].token_id <= secure_channel_state.last_token_id)
    /\ [][/\ secure_channel_state'.last_token_id >= secure_channel_state.last_token_id
          /\ (OpenAnswered /\ outbox'[Len(outbox')].kind = "OpenSecureChannelResponse")
                => /\ outbox'[Len(outbox')].token_id = secure_channel_state'.last_token_id
                   /\ secure_channel_state'.last_token_id
                         > secure_channel_state.last_token_id]_vars

\* An Issue and a Renew have both been answered with a good response.
TwoTokensIssued ==
    /\ Cardinality(OpenResponseIndices) = 2
    /\ secure_channel_state.renew_count = 1

\* C2 as stated: after the first accepted Issue every later good
\* OpenSecureChannelResponse, whether it answers a Renew or a further Issue,
\* carries the same channel_id (as long as the connection is not being closed).
ChannelIdStable ==
    ~closing => \A i, j \in OpenResponseIndices :
                    outbox[i].channel_id = outbox[j].channel_id

\* C2 amended: a good response to a Renew carries the channel_id the channel
\* held when the Renew arrived and leaves it in place; a good response to an
\* Issue, the first or a further one, carries a newly allocated channel_id that
\* no earlier response carried.
ChannelIdKeptByRenewOnly ==
    [][(OpenAnswered /\ outbox'[Len(outbox')].kind = "OpenSecureChannelResponse") =>
          IF secure_channel_state'.renew_count # secure_channel_state.renew_count
          THEN /\ outbox'[Len(outbox')].channel_id = channel.secure_channel_id
               /\ channel'.secure_channel_id = channel.secure_channel_id
               /\ secure_channel_id_handle' = secure_channel_id_handle
          ELSE /\ outbox'[Len(outbox')].channel_id = secure_channel_id_handle
               /\ channel'.secure_channel_id = secure_channel_id_handle
               /\ secure_channel_id_handle' = secure_channel_id_handle + 1
               /\ \A i \in OpenResponseIndices :
                     outbox[i].channel_id < outbox'[Len(outbox')].channel_id]_vars

\* A further Issue has been answered on an open connection: two good responses
\* with different channel ids.
SecondIssueAnswered ==
    /\ ~closing
    /\ secure_channel_state.renew_count = 0
    /\ \E i, j \in OpenResponseIndices :
          i < j /\ outbox[i].channel_id # outbox[j].channel_id

\* The Renew requests that reach the request type test.
Renews == {r \in WellFormedOpens : r.request_type = "Renew"}

\* C5 as stated: a Renew processed while issued = false is rejected with
\* BadUnexpectedError whatever the security policy and the client nonce are, and
\* the transport is then set closing.
RenewBeforeIssueIsFatal ==
    [][(opens' = opens + 1 /\ ~secure_channel_state.issued) =>
          \A request \in Renews, send_ok \in BOOLEAN :
             OpenSecureChannel(request, send_ok) =>
                /\ closing'
                /\ send_ok => outbox' = Append(outbox,
                                 ServiceFault(next_request_id, HandleOf(next_request_id),
                                              "BadUnexpectedError"))]_vars

\* The Renew requests made under a security policy other than None with the
\* given client nonce.
ReusedNonceRenews(nonce) ==
    [header : {"Asymmetric"}, protocol_ok : {TRUE},
     security_policy : SecurityPolicies \ {"None"},
     request_type : {"Renew"}, security_mode : SecurityModes,
     client_nonce : {nonce}, sender_certificate : SenderCertificates,
     requested_lifetime : Lifetimes]

\* C6: on a channel that has been issued, a Renew under a non-None policy whose
\* client_nonce equals the stored remote_nonce leaves channel_id, token_id and
\* renew_count as they were, and, the transport accepting the answer, is
\* answered with a ServiceFault BadNonceInvalid without the transport being set
\* closing.
ReusedNonceRenewRejectedOnly ==
    [][(opens' = opens + 1 /\ secure_channel_state.issued) =>
          \A request \in ReusedNonceRenews(channel.remote_nonce), send_ok \in BOOLEAN :
             OpenSecureChannel(request, send_ok) =>
                /\ channel'.secure_channel_id = channel.secure_channel_id
                /\ channel'.token_id = channel.token_id
                /\ secure_channel_state'.renew_count = secure_channel_state.renew_count
                /\ send_ok => /\ outbox' = Append(outbox,
                                    ServiceFault(next_request_id, HandleOf(next_request_id),
                                                 "BadNonceInvalid"))
                              /\ closing' = closing]_vars

\* An Issue was accepted with a real nonce, then a Renew (no second channel id
\* was allocated) was answered BadNonceInvalid: the token of the Issue is still
\* the channel's and the connection is open.
ReusedNonceRenewAnswered ==
    /\ ~closing
    /\ Len(outbox) = 2
    /\ outbox[1].kind = "OpenSecureChannelResponse"
    /\ outbox[2].kind = "ServiceFault"
    /\ outbox[2].status = "BadNonceInvalid"
    /\ secure_channel_id_handle = FirstSecureChannelId + 1
    /\ channel.token_id = outbox[1].token_id
    /\ channel.remote_nonce # 0
    /\ secure_channel_state.renew_count = 0

\* The statuses an OpenSecureChannel is turned down with for a security error.
SecurityRejections == {"BadCertificateInvalid", "BadNonceInvalid", "BadSecurityModeRejected"}

\* This step answered an OpenSecureChannel with a fault for a security error.
SecurityRejected ==
    /\ OpenAnswered
    /\ outbox'[Len(outbox')].kind = "ServiceFault"
    /\ outbox'[Len(outbox')].status \in SecurityRejections

ValidSession(token) ==
    /\ token \in DOMAIN sessions
    /\ sessions[token].activated
    /\ sessions[token].secure_channel_id = channel.secure_channel_id
    /\ ~sessions[token].timed_out

\* C3: handle_message is invoked for a request only if, at that moment, the
\* request's authentication token resolves to a session that is activated,
\* bound to the current channel's secure_channel_id and not timed out; a
\* request failing any of these is never dispatched.
DispatchOnlyForValidSession ==
    [][\A h \in handled' \ handled : ValidSession(h.authentication_token)]_vars

\* A request has been dispatched on a channel the connection opened.
RequestDispatched ==
    /\ handled # {}
    /\ secure_channel_state.issued

\* The status the checks give in the order: session, activation, channel, timeout.
FirstFailingCheck(token) ==
    IF token \notin DOMAIN sessions THEN "BadSessionIdInvalid"
    ELSE IF ~sessions[token].activated THEN "BadSessionNotActivated"
    ELSE IF sessions[token].secure_channel_id # channel.secure_channel_id
    THEN "BadSecureChannelIdInvalid"
    ELSE IF sessions[token].timed_out THEN "BadSessionIdInvalid"
    ELSE "Good"

\* C4: validation of a service request reports the first failing check in the
\* order no session (BadSessionIdInvalid), not activated
\* (BadSessionNotActivated), other channel id (BadSecureChannelIdInvalid), timed
\* out (BadSessionIdInvalid); the request is not dispatched, and, the transport
\* accepting the answer, the ServiceFault carries that status under the
\* request's id and handle and the transport is not set closing.
ValidationReportsFirstFailure ==
    [][\A token \in Tokens \cup {NullToken} :
          FirstFailingCheck(token) # "Good" =>
             \A variant \in HandlerVariants, status \in HandlerStatuses,
                send_ok \in BOOLEAN :
                ServiceRequest(token, variant, status, send_ok) =>
                   /\ handled' = handled
                   /\ pending' = pending
                   /\ send_ok =>
                         /\ outbox' = Append(outbox,
                               ServiceFault(next_request_id, HandleOf(next_request_id),
                                            FirstFailingCheck(token)))
                         /\ closing' = closing]_vars

\* A request for a session failing all three checks was answered
\* BadSessionNotActivated on an open connection.
SeveralChecksFailed ==
    /\ ~closing
    /\ secure_channel_state.issued
    /\ Len(outbox) >= 2
    /\ outbox[Len(outbox)].kind = "ServiceFault"
    /\ outbox[Len(outbox)].status = "BadSessionNotActivated"
    /\ \E token \in DOMAIN sessions :
          /\ ~sessions[token].activated
          /\ sessions[token].secure_channel_id # channel.secure_channel_id
          /\ sessions[token].timed_out

\* The entries async service calls can have in the pending set.
CallEntries == {PendingEntry(id, HandleOf(id), "call") : id \in RequestIds}

\* The event loop polls pending_messages whenever one of its futures is ready:
\* an entry that can be resolved is resolved if the loop goes on.
FairSpecService ==
    /\ SpecService
    /\ \A entry \in CallEntries :
          WF_vars(\E send_ok \in BOOLEAN : PendingResponse(entry, send_ok))

\* The messages sent under a request id.
Answers(id) == {i \in DOMAIN outbox : outbox[i].request_id = id}

\* The BadTimeout fault of an entry has been sent.
TimeoutAnswered(entry) ==
    \E i \in DOMAIN outbox :
       outbox[i] = ServiceFault(entry.request_id, entry.request_handle, "BadTimeout")

\* C8 as stated: if an async call has not completed when its per-request
\* deadline passes, the controller eventually enqueues a ServiceFault
\* BadTimeout with the request's own request_handle and request_id (unless the
\* connection is closed in the meantime).
TimeoutFaultFollowsDeadline ==
    \A entry \in CallEntries :
       (/\ entry \in pending
        /\ entry.request_id \in expired
        /\ calls[entry.request_id].state = "running")
          ~> (TimeoutAnswered(entry) \/ closing \/ ~running)

\* C8 amended: when the pending entry of an async call is polled after its
\* deadline has passed and the call has still not completed, the call's handle
\* is aborted and the ServiceFault BadTimeout with the request's own
\* request_handle and request_id is enqueued without the transport being set
\* closing (the enqueue failing is a fatal error); a call that completes
\* between its deadline and that poll is answered with its result.  While the
\* loop runs, an entry whose deadline has passed is eventually resolved.
TimeoutDecidedAtPoll ==
    /\ [][\A entry \in pending :
             (/\ entry.kind = "call"
              /\ entry.request_id \in expired
              /\ calls[entry.request_id].state = "running"
              /\ entry \notin pending') =>
                /\ calls'[entry.request_id].state = "aborted"
                /\ \/ /\ outbox' = Append(outbox,
                            ServiceFault(entry.request_id, entry.request_handle,
                                         "BadTimeout"))
                      /\ closing' = closing
                   \/ /\ outbox' = fatal_error(outbox, closing, EnqueueError)
                      /\ closing']_vars
    /\ \A entry \in CallEntries :
          (entry \in pending /\ entry.request_id \in expired)
             ~> (entry \notin pending \/ ~running)

\* A call was aborted at its deadline and the BadTimeout fault was sent on an
\* open connection.
TimeoutFaultSent ==
    /\ ~closing
    /\ secure_channel_state.issued
    /\ \E entry \in CallEntries :
          /\ entry.request_id \in DOMAIN calls
          /\ calls[entry.request_id].state = "aborted"
          /\ TimeoutAnswered(entry)

\* C9: at most one response is ever enqueued under the request_id of a
\* dispatched call, and none while its entry is pending: the handler's result
\* or the BadTimeout fault, never both; the result of a call that finishes after
\* it was aborted is discarded; a result already available when the entry is
\* polled is sent even if the deadline has also passed.
AtMostOneResponsePerCall ==
    /\ [](/\ \A id \in DOMAIN calls : Cardinality(Answers(id)) <= 1
          /\ \A entry \in pending : Answers(entry.request_id) = {}
          /\ \A id \in DOMAIN calls :
                calls[id].state = "aborted" => \A entry \in pending : entry.request_id # id)
    /\ [][\A entry \in pending :
             (/\ entry.kind = "call"
              /\ entry.request_id \in expired
              /\ calls[entry.request_id].state = "finished"
              /\ entry \notin pending') =>
                /\ calls' = calls
                /\ \/ /\ outbox' = Append(outbox,
                            ServiceResponse(entry.request_id, entry.request_handle,
                                            calls[entry.request_id].status))
                      /\ closing' = closing
                   \/ /\ outbox' = fatal_error(outbox, closing, EnqueueError)
                      /\ closing']_vars

\* A call whose deadline had passed was answered with its result.
ResultSentAfterDeadline ==
    /\ secure_channel_state.issued
    /\ \E entry \in CallEntries :
          /\ entry.request_id \in expired
          /\ calls[entry.request_id].state = "finished"
          /\ \E i \in Answers(entry.request_id) :
                outbox[i] = ServiceResponse(entry.request_id, entry.request_handle,
                                            calls[entry.request_id].status)

\* This step resolved the pending entry of a call that panicked.
PanicResolved(entry) ==
    /\ entry \in pending
    /\ calls[entry.request_id].state = "panicked"
    /\ entry \notin pending'

\* C10 as stated: when a service handler panics the request is answered with a
\* ServiceFault BadInternalError and the transport is not set closing.
PanicAnsweredWithFault ==
    [][\A entry \in CallEntries :
          PanicResolved(entry) =>
             /\ outbox' = Append(outbox,
                   ServiceFault(entry.request_id, entry.request_handle,
                                "BadInternalError"))
             /\ closing' = closing]_vars

\* C10 amended: a handler's panic is a fatal error of the connection: the
\* request gets no ServiceFault, the error message BadInternalError is sent
\* unless the transport is already closing, and the transport is set closing;
\* the loop itself goes on until the transport reports Closed.
PanicIsFatal ==
    [][\A entry \in CallEntries :
          PanicResolved(entry) =>
             /\ outbox' = IF closing THEN outbox
                          ELSE Append(outbox, ErrorMessage("BadInternalError"))
             /\ closing'
             /\ running' = running
             /\ entry \notin pending']_vars

\* A call panicked, its entry was resolved, and the error message
\* BadInternalError is the last message sent on the now closing connection.
PanicClosedConnection ==
    /\ closing
    /\ secure_channel_state.issued
    /\ Len(outbox) >= 1
    /\ outbox[Len(outbox)] = ErrorMessage("BadInternalError")
    /\ \E entry \in CallEntries :
          /\ entry.request_id \in DOMAIN calls
          /\ calls[entry.request_id].state = "panicked"
          /\ entry \notin pending


(***************************************************************************)
(* Properties of the per-request deadline (SpecDeadline).                  *)
(***************************************************************************)
DeadlineComputed == timing.deadline # NoDeadline

\* C19: the timeout of a service request is timeout_hint when max_timeout_ms is
\* zero and the larger of timeout_hint and max_timeout_ms otherwise; the deadline
\* is the receipt time plus that many milliseconds, and the receipt time plus 24
\* hours exactly when both are zero.
DeadlineIsReceiptPlusTimeout ==
    DeadlineComputed =>
        LET hint == timing.timeout_hint
            max_timeout == timing.max_timeout_ms
            larger == IF hint >= max_timeout THEN hint ELSE max_timeout
        IN  /\ (hint = 0 /\ max_timeout = 0)
                   <=> timing.deadline = timing.received_at + DayMillis
            /\ (max_timeout = 0 /\ hint > 0)
                   => timing.deadline = timing.received_at + hint
            /\ max_timeout > 0
                   => timing.deadline = timing.received_at + larger

\* A request with no hint, received at a positive time by a server with no
\* max_timeout_ms, has been given the deadline 24 hours after its receipt.
DayLongDeadlineComputed ==
    /\ DeadlineComputed
    /\ timing.timeout_hint = 0
    /\ timing.max_timeout_ms = 0
    /\ timing.received_at > 0
    /\ timing.deadline = timing.received_at + DayMillis

\* C20: when max_timeout_ms is positive no request is given a deadline later than
\* max_timeout_ms after its receipt.
DeadlineWithinConfiguredTimeout ==
    (DeadlineComputed /\ timing.max_timeout_ms > 0)
        => timing.deadline <= timing.received_at + timing.max_timeout_ms

(***************************************************************************)
(* Properties of the connection deadline and of shutdown (SpecChannel).    *)
(***************************************************************************)
ErrorIndices == {i \in DOMAIN outbox : outbox[i].kind = "Error"}

\* This step sent the error message of the given status.
ErrorSent(status) ==
    /\ Len(outbox') = Len(outbox) + 1
    /\ outbox'[Len(outbox')] = ErrorMessage(status)

\* C11 as stated: the step in which the deadline fires sends the BadTimeout error
\* message, sets the transport closing and leaves the event loop, and once the
\* message is sent no request is processed any more.
DeadlineLeavesLoop ==
    [][/\ ErrorSent("BadTimeout") => (closing' /\ ~running')
       /\ (\E i \in ErrorIndices : outbox[i].status = "BadTimeout")
             => next_request_id' = next_request_id]_vars

\* C11: when the deadline passes on a transport that is not closing, the
\* controller sends one BadTimeout error message and sets the transport closing,
\* and it stays in its event loop; no connection is ever sent a second error
\* message; and the loop is left only by the step in which the transport reports
\* Closed, which sends nothing and processes nothing.
DeadlineClosesWithoutLeaving ==
    [][/\ ErrorSent("BadTimeout") =>
             /\ ~closing /\ closing'
             /\ running /\ running'
             /\ next_request_id' = next_request_id
             /\ UNCHANGED <<secure_channel_state, channel, deadline, diagnostics, opens>>
       /\ Cardinality(ErrorIndices') <= 1
       /\ (running /\ ~running') =>
             UNCHANGED <<closing, outbox, next_request_id, opens, channel>>]_vars

\* The renewal deadline of an issued channel has fired: the BadTimeout error
\* message follows the OpenSecureChannelResponse, the transport is closing and
\* the loop still runs.
RenewalDeadlineFired ==
    /\ secure_channel_state.issued
    /\ running
    /\ closing
    /\ Len(outbox) = 2
    /\ outbox[1].kind = "OpenSecureChannelResponse"
    /\ outbox[2] = ErrorMessage("BadTimeout")

\* C12: the connection deadline is the hello deadline until an OpenSecureChannel
\* has been processed, an OpenSecureChannel answered with a ServiceFault leaves it
\* unchanged, and so does every step that processes no OpenSecureChannel.
DeadlineResetOnlyBySuccess ==
    [][/\ opens = 0 => deadline.kind = "hello"
       /\ (OpenAnswered /\ outbox'[Len(outbox')].kind = "ServiceFault")
             => deadline' = deadline
       /\ opens' = opens => deadline' = deadline]_vars

(***************************************************************************)
(* Properties of the pending calls at shutdown and of the order of their   *)
(* responses (SpecService).                                                *)
(***************************************************************************)
PendingCalls == {entry \in pending : entry.kind = "call"}

\* This step sent an error message: a Close command or a fatal error.
ShutdownStep ==
    /\ Len(outbox') = Len(outbox) + 1
    /\ outbox'[Len(outbox')].kind = "Error"

\* This step sent the result of the given pending call.
ResultSent(entry) ==
    /\ Len(outbox') = Len(outbox) + 1
    /\ outbox'[Len(outbox')].kind = "Response"
    /\ outbox'[Len(outbox')].request_id = entry.request_id

\* C13 as stated: the step that shuts the controller down, by a Close command or
\* by a fatal error, aborts every call still in the pending set, and once the
\* controller is shut down no result of a pending call is enqueued.
ShutdownAbortsPendingCalls ==
    [][/\ ShutdownStep =>
             \A entry \in PendingCalls : calls'[entry.request_id].state = "aborted"
       /\ ErrorIndices # {} =>
             \A entry \in PendingCalls : ~ResultSent(entry)]_vars

\* C13: a Close command or a fatal error aborts no call: the step that sends the
\* error message leaves every entry that is still pending, and the call behind
\* it, as they were, and a Close command leaves the whole pending set and every
\* call untouched.
ShutdownLeavesPendingCalls ==
    [][ShutdownStep =>
          /\ pending' \subseteq pending
          /\ \A entry \in pending' : calls'[entry.request_id] = calls[entry.request_id]
          /\ outbox'[Len(outbox')].status = "BadServerHalted"
                => (pending' = pending /\ calls' = calls)]_vars

\* A call was pending when the Close command came; it has finished since and
\* its result was enqueued behind the BadServerHalted error message.
ResultSentAfterShutdown ==
    \E i \in ErrorIndices, entry \in CallEntries :
       /\ outbox[i].status = "BadServerHalted"
       /\ entry.request_id \in DOMAIN calls
       /\ calls[entry.request_id].state = "finished"
       /\ \E j \in DOMAIN outbox :
             /\ j > i
             /\ outbox[j].kind = "Response"
             /\ outbox[j].request_id = entry.request_id

\* The call of this pending entry has completed and its response is not sent yet.
Completed(entry) ==
    /\ entry \in PendingCalls
    /\ calls[entry.request_id].state = "finished"

\* C14: the response of an async call is enqueued when the call has completed,
\* whatever the order of the requests: while the loop runs, the response of a
\* completed call can be the next one enqueued however many earlier requests are
\* still pending, and the step that enqueues it takes this one entry from the
\* pending set and leaves every other entry, earlier or later, pending.
ResponsesInCompletionOrder ==
    [][/\ \A entry \in CallEntries :
             (running /\ Completed(entry)) => ENABLED PendingResponse(entry, TRUE)
       /\ \A entry \in CallEntries :
             (entry \in pending /\ ResultSent(entry)) =>
                /\ Completed(entry)
                /\ pending' = pending \ {entry}
                /\ \A other \in pending' : calls'[other.request_id] = calls[other.request_id]]_vars

\* The response of a later request has been enqueued while the call of an
\* earlier request is still running and its entry still pending.
LaterResponseSentFirst ==
    \E earlier \in PendingCalls, i \in DOMAIN outbox :
       /\ calls[earlier.request_id].state = "running"
       /\ outbox[i].kind = "Response"
       /\ outbox[i].request_id > earlier.request_id
       /\ outbox[i].request_id \in DOMAIN calls

(***************************************************************************)
(* Properties of a failing enqueue_message_for_send (SpecEnqueue).         *)
(***************************************************************************)
\* This step handed a message to the transport and the transport refused it: the
\* step is one of a failing enqueue and not one of a succeeding enqueue.
EnqueueFailed ==
    \/ \E request \in UnsentOpens :
          OpenSecureChannel(request, FALSE) /\ ~OpenSecureChannel(request, TRUE)
    \/ CreateSession(FALSE) /\ ~CreateSession(TRUE)
    \/ \E token \in Tokens \cup {NullToken} :
          \/ ActivateSession(token, FALSE) /\ ~ActivateSession(token, TRUE)
          \/ CloseSession(token, FALSE) /\ ~CloseSession(token, TRUE)
          \/ \E variant \in HandlerVariants, status \in HandlerStatuses :
                /\ ServiceRequest(token, variant, status, FALSE)
                /\ ~ServiceRequest(token, variant, status, TRUE)
    \/ Discovery(FALSE) /\ ~Discovery(TRUE)
    \/ Unsupported(FALSE) /\ ~Unsupported(TRUE)
    \/ \E status \in RecoverableStatuses :
          RecoverableError(status, FALSE) /\ ~RecoverableError(status, TRUE)
    \/ \E entry \in pending :
          PendingResponse(entry, FALSE) /\ ~PendingResponse(entry, TRUE)

\* C15: on every path that enqueues a message (the response of an async call, a
\* synchronous response, the session and discovery services, a validation
\* fault, the fault of a recoverable transport error, the OpenSecureChannel
\* answer), a failing enqueue_message_for_send leaves the transport closing at the
\* end of the step, before any other event is handled.
EnqueueFailureSetsClosing ==
    [][closing' \/ ~EnqueueFailed]_vars

\* The response of a validated synchronous request could not be enqueued: every
\* other request was answered, the queue holds no message for this one, no error
\* message was sent, and the transport is closing.
SyncResponseNotEnqueued ==
    /\ closing
    /\ running
    /\ DOMAIN calls = {}
    /\ ErrorIndices = {}
    /\ Len(outbox) = next_request_id - 2
    /\ \E request \in handled :
          \A i \in DOMAIN outbox : outbox[i].request_id # request.request_id

(***************************************************************************)
(* Properties of a request on a timed-out session (SpecService).           *)
(***************************************************************************)
\* The session of this token is activated and bound to this channel, and its
\* timeout has passed.
TimedOutSession(token) ==
    /\ token \in DOMAIN sessions
    /\ sessions[token].activated
    /\ sessions[token].secure_channel_id = channel.secure_channel_id
    /\ sessions[token].timed_out

\* This step processed a service request carrying the token of a timed-out
\* session (the transport accepting the answer).
TimedOutRequest(token) ==
    /\ TimedOutSession(token)
    /\ ServiceRequest(token, "Sync", "Good", TRUE)

SessionFault(message) ==
    /\ message.kind = "ServiceFault"
    /\ message.status = "BadSessionIdInvalid"

\* C16 as stated: a request on a timed-out session is answered with
\* BadSessionIdInvalid and the session is destroyed, so that the SessionManager
\* no longer holds the token.
TimedOutSessionDestroyed ==
    [][\A token \in Tokens :
          TimedOutRequest(token) =>
             /\ SessionFault(outbox'[Len(outbox')])
             /\ token \notin DOMAIN sessions']_vars

\* C16: a request on an activated session of this channel whose timeout has
\* passed is answered with BadSessionIdInvalid and is not dispatched, and the
\* controller leaves the session where it is: the SessionManager still holds it,
\* timed out, after the request.
TimedOutSessionKept ==
    [][\A token \in Tokens :
          TimedOutRequest(token) =>
             /\ Len(outbox') = Len(outbox) + 1
             /\ SessionFault(outbox'[Len(outbox')])
             /\ handled' = handled
             /\ pending' = pending
             /\ sessions' = sessions
             /\ TimedOutSession(token)']_vars

\* A request on the session was dispatched, the session has timed out since, and
\* the last request was answered with BadSessionIdInvalid while the
\* SessionManager still holds the session.
TimedOutSessionAnswered ==
    \E token \in Tokens, request \in handled :
       /\ TimedOutSession(token)
       /\ request.authentication_token = token
       /\ Len(outbox) >= 1
       /\ SessionFault(outbox[Len(outbox)])
       /\ outbox[Len(outbox)].request_id > request.request_id
       /\ outbox[Len(outbox)].request_id = next_request_id - 1

(***************************************************************************)
(* Properties of the token id and renew counters (SpecChannel).            *)
(***************************************************************************)
\* The place of a good response among the good responses sent so far.
ResponseRank(i) == Cardinality({j \in OpenResponseIndices : j <= i})

\* The good responses that repeat the channel_id of an earlier one: the answers
\* to Renews, as long as no request was rejected.
RenewResponses ==
    {j \in OpenResponseIndices :
        \E i \in OpenResponseIndices : i < j /\ outbox[i].channel_id = outbox[j].channel_id}

ClampedLifetime(requested_lifetime) ==
    IF requested_lifetime < max_secure_channel_token_lifetime_ms
    THEN requested_lifetime
    ELSE max_secure_channel_token_lifetime_ms

\* C18: for every accepted OpenSecureChannel request, the revised_lifetime of the
\* response and the token lifetime stored in the channel are both the smaller of
\* requested_lifetime and max_secure_channel_token_lifetime_ms.
RevisedLifetimeIsClamped ==
    [][(OpenAnswered /\ outbox'[Len(outbox')].kind = "OpenSecureChannelResponse") =>
          \A request \in WellFormedOpens :
             OpenSecureChannel(request, TRUE) =>
                /\ outbox'[Len(outbox')].revised_lifetime
                      = ClampedLifetime(request.requested_lifetime)
                /\ channel'.token_lifetime = ClampedLifetime(request.requested_lifetime)]_vars

\* Two requests were accepted: one asked for less than the maximum and was
\* granted what it asked for, the other asked for more and was granted the
\* maximum, which is the lifetime the channel now stores.
LifetimeGrantedAndClamped ==
    /\ Cardinality(OpenResponseIndices) = 2
    /\ outbox[1].revised_lifetime < max_secure_channel_token_lifetime_ms
    /\ outbox[2].revised_lifetime = max_secure_channel_token_lifetime_ms
    /\ channel.token_lifetime = max_secure_channel_token_lifetime_ms

(***************************************************************************)
(* Properties of the requests answered through the publish queue           *)
(* (SpecService).                                                          *)
(***************************************************************************)
\* The entries publish requests can have in the pending set.
PublishEntries == {PendingEntry(id, HandleOf(id), "publish") : id \in RequestIds}

\* C21: a request answered through the publish queue is never answered with a
\* BadTimeout fault by the controller and its reply is never aborted: while its
\* entry is pending no step enqueues the BadTimeout fault of the request or
\* aborts it, and as long as the subscription has not replied the entry stays
\* pending, whether the deadline computed for the request has passed or not.
PublishHasNoDeadline ==
    [][\A entry \in PublishEntries :
          entry \in pending =>
             /\ ~TimeoutAnswered(entry)'
             /\ calls'[entry.request_id].state # "aborted"
             /\ calls[entry.request_id].state = "running" => entry \in pending']_vars

\* The deadline computed for a publish request has passed, the subscription has
\* not replied, and the loop has since answered a later request: the publish
\* request is still pending and unanswered.
PublishPendingPastDeadline ==
    \E entry \in PublishEntries :
       /\ entry \in pending
       /\ entry.request_id \in expired
       /\ calls[entry.request_id].state = "running"
       /\ Answers(entry.request_id) = {}
       /\ \E i \in DOMAIN outbox : outbox[i].request_id > entry.request_id

(***************************************************************************)
(* Properties of the transport's poll results and of CloseSecureChannel    *)
(* (SpecService).                                                          *)
(***************************************************************************)
\* C22: a recoverable error of the transport is answered with one ServiceFault
\* carrying its status and request_handle under its request_id, and the
\* connection stays as it was; only when that fault cannot be enqueued is the
\* transport set closing, and then no fault is enqueued.
RecoverableErrorAnswered ==
    [][\A status \in RecoverableStatuses :
          /\ RecoverableError(status, TRUE) =>
                /\ outbox' = Append(outbox, ServiceFault(next_request_id,
                                                         HandleOf(next_request_id), status))
                /\ Cardinality({i \in DOMAIN outbox' :
                                   outbox'[i].request_id = next_request_id}) = 1
                /\ closing' = closing
                /\ running'
          /\ RecoverableError(status, FALSE) =>
                /\ \A i \in DOMAIN outbox' : outbox'[i].request_id # next_request_id
                /\ closing']_vars

\* A recoverable error was answered with its fault on a connection that stays
\* open.
RecoverableFaultSent ==
    /\ ~closing
    /\ running
    /\ Len(outbox) >= 2
    /\ outbox[Len(outbox)].kind = "ServiceFault"
    /\ outbox[Len(outbox)].status \in RecoverableStatuses
    /\ outbox[Len(outbox)].request_id = next_request_id - 1

CloseSecureChannelIsSilent ==
    [][CloseSecureChannel =>
          /\ closing'
          /\ outbox' = outbox
          /\ running'
          /\ UNCHANGED <<diagnostics, sessions, pending, calls>>]_vars

\* The second request of the connection was a CloseSecureChannel: the transport
\* is closing and the queue holds the OpenSecureChannelResponse only.
ChannelClosedWithoutAnswer ==
    /\ closing
    /\ running
    /\ next_request_id = 3
    /\ Len(outbox) = 1
    /\ outbox[1].kind = "OpenSecureChannelResponse"
    /\ diagnostics.rejected = 0

(***************************************************************************)
(* Properties of the diagnostics counters (SpecService).                   *)
(***************************************************************************)
\* This step answered a request with a bad service result.
BadResultSent ==
    /\ Len(outbox') = Len(outbox) + 1
    /\ outbox'[Len(outbox')].kind \in {"ServiceFault", "Response"}
    /\ outbox'[Len(outbox')].status # "Good"

\* C25: with diagnostics enabled, every step that answers a request with a bad
\* service result increments the rejected counter by exactly one, the security
\* counter moves only together with it, and the security counter never exceeds
\* the rejected counter.
EveryRejectionCounted ==
    [][/\ (diagnostics.enabled /\ BadResultSent)
             => diagnostics'.rejected = diagnostics.rejected + 1
       /\ diagnostics'.security_rejected # diagnostics.security_rejected
             => /\ diagnostics'.security_rejected = diagnostics.security_rejected + 1
                /\ diagnostics'.rejected = diagnostics.rejected + 1
       /\ diagnostics'.security_rejected <= diagnostics'.rejected]_vars

(***************************************************************************)
(* Properties of the client's SecureChannelState (SpecClient).             *)
(***************************************************************************)
\* C26: the request handles handed out by one SecureChannelState, through
\* make_request_header and request_handle alike and to callers that run side
\* by side, start at FIRST_REQUEST_HANDLE and are strictly increasing in the
\* order they were handed out, hence pairwise distinct.  AtomicHandle::next is
\* taken as one atomic step, and the counter stays far below u32::MAX.
RequestHandlesIncrease ==
    LET handles == client_channel_state.handles
    IN  /\ handles # <<>> => handles[1] = FIRST_REQUEST_HANDLE
        /\ \A i \in DOMAIN handles, j \in DOMAIN handles : i < j => handles[i] < handles[j]

\* Three handles have been handed out while another caller is in the middle of
\* make_request_header.
HandlesHandedOutConcurrently ==
    /\ Len(client_channel_state.handles) >= MaxHandles
    /\ \E p \in Callers : client_channel_state.callers[p].pc = "header"

\* C27 as stated: the stored client offset is the sum of every offset handed
\* to set_client_offset, in whatever way the calls interleave.
ClientOffsetIsSumOfUpdates ==
    (\A p \in Callers : client_channel_state.callers[p].pc # "store")
        => client_channel_state.client_offset = client_channel_state.applied

\* C27: set_client_offset loads the stored offset and then stores the sum, two
\* steps and no atomic add.  As long as no call loads the offset between the
\* load and the store of another call, the stored offset is the sum of the
\* offsets of the calls that have stored; a call that does load in between
\* can overwrite the other's update.
ClientOffsetIsSumUnlessOverlapped ==
    ~client_channel_state.overlapped
        => client_channel_state.client_offset = client_channel_state.applied

\* Two calls of set_client_offset, one after the other, have each added the
\* largest offset.
TwoOffsetsAddedInTurn ==
    /\ client_channel_state.updates = 2
    /\ ~client_channel_state.overlapped
    /\ client_channel_state.client_offset = 2 * MaxSkew

\* C28: the client offset is zero after new() and is changed only by the
\* set_client_offset of a caller that handles an OpenSecureChannel response
\* with ignore_clock_skew set and a timestamp that is not null.  A caller that
\* handles any other OpenSecureChannel response leaves the stored offset alone
\* and installs the security token with created_at exactly as received.
ClientOffsetChangesOnlyForSkew ==
    /\ client_channel_state.client_offset = 0
    /\ [][LET state == client_channel_state
              after == client_channel_state'
          IN  /\ after.client_offset # state.client_offset
                    => \E p \in Callers :
                          /\ state.callers[p].pc = "store"
                          /\ after.callers[p].pc = "install"
                          /\ state.callers[p].response.is_open
                          /\ state.ignore_clock_skew
                          /\ state.callers[p].response.timestamp # NullTime
              /\ \A p \in Callers :
                    ( /\ state.callers[p].pc = "install"
                      /\ after.callers[p].pc = "idle"
                      /\ ~(/\ state.ignore_clock_skew
                           /\ state.callers[p].response.timestamp # NullTime) )
                        => /\ after.client_offset = state.client_offset
                           /\ after.secure_channel.created_at =
                                  state.callers[p].response.created_at]_vars

\* With ignore_clock_skew set, one response has moved the client offset and
\* another one, its timestamp null, has had its token installed as received.
TokenInstalledAfterSkew ==
    /\ client_channel_state.ignore_clock_skew
    /\ client_channel_state.updates = 1
    /\ client_channel_state.client_offset # 0
    /\ \A p \in Callers : /\ client_channel_state.callers[p].pc = "idle"
                          /\ client_channel_state.callers[p].result = "Ok"
    /\ client_channel_state.secure_channel.created_at \in Times

(***************************************************************************)
(* Properties of the type tree (SpecTypeTree).                             *)
(***************************************************************************)
\* What is_subtype_of answers for every pair of node ids.
SubtypeTable ==
    [pair \in NodeIds \X NodeIds |-> is_subtype_of(type_tree, pair[1], pair[2])]

\* C29: on every type tree reached by calls of add_type_node and remove,
\* is_subtype_of is reflexive (a node is a subtype of itself) and transitive
\* (when it answers true for a, b and for b, c, it answers true for a, c).
SubtypeReflexiveAndTransitive ==
    LET answer == SubtypeTable
    IN  /\ \A a \in NodeIds : answer[<<a, a>>] = "true"
        /\ \A a \in NodeIds, b \in NodeIds, c \in NodeIds :
              (answer[<<a, b>>] = "true" /\ answer[<<b, c>>] = "true")
                  => answer[<<a, c>>] = "true"

\* Three calls have built a chain a -> b -> c of three different types, and
\* is_subtype_of answers true for a and c.
SubtypeChainBuilt ==
    /\ type_tree.ops = MaxTreeOps
    /\ \E a \in NodeIds, b \in NodeIds, c \in NodeIds :
          /\ a # b /\ b # c /\ a # c
          /\ a \in DOMAIN type_tree.subtypes_by_target
          /\ b \in DOMAIN type_tree.subtypes_by_target
          /\ type_tree.subtypes_by_target[a] = b
          /\ type_tree.subtypes_by_target[b] = c
          /\ is_subtype_of(type_tree, a, c) = "true"

\* The node reached from node by so many steps along subtypes_by_target, and
\* 0 when the map ends before.
RECURSIVE climb(_, _, _)
climb(tree, node, steps) ==
    IF steps = 0 THEN node
    ELSE IF node \notin DOMAIN tree.subtypes_by_target THEN 0
    ELSE climb(tree, tree.subtypes_by_target[node], steps - 1)

\* C30 as stated: after any sequence of add_type_node and remove, no node
\* comes back to itself along the child-to-parent map subtypes_by_target.
SubtypesByTargetAcyclic ==
    \A node \in NodeIds, steps \in 1..Cardinality(NodeIds) :
        climb(type_tree, node, steps) # node

\* C31 as stated: is_subtype_of returns for every pair of node ids on every
\* type tree reached by calls of add_type_node and remove.
SubtypeWalkTerminates ==
    \A child \in NodeIds, ancestor \in NodeIds :
        is_subtype_of(type_tree, child, ancestor) # "never returns"

normalize(d) ==
    [d EXCEPT !.source_picoseconds = IF is_some(d.source_timestamp) THEN @ ELSE None,
              !.server_picoseconds = IF is_some(d.server_timestamp) THEN @ ELSE None]

\* The fields of a decoded DataValue.
DecodedValue ==
    [value |-> codec.decoded.value, status |-> codec.decoded.status,
     source_timestamp |-> codec.decoded.source_timestamp,
     source_picoseconds |-> codec.decoded.source_picoseconds,
     server_timestamp |-> codec.decoded.server_timestamp,
     server_picoseconds |-> codec.decoded.server_picoseconds]

\* C33 as stated: decoding the encoding of a DataValue gives the normalized
\* DataValue, whatever the decoding context.
RoundTripIsNormalize ==
    codec.pc = "decoded" =>
        /\ ~codec.decoded.error
        /\ DecodedValue = normalize(codec.value)

\* C33: decoding the encoding of a DataValue succeeds and gives the normalized
\* DataValue with its server timestamp, when present, moved back by the client
\* offset of the decoding context; the source timestamp is never moved.  Under
\* a context with client offset zero the result is the normalized DataValue.
RoundTripIsNormalizeUpToOffset ==
    codec.pc = "decoded" =>
        /\ ~codec.decoded.error
        /\ DecodedValue =
               [normalize(codec.value) EXCEPT
                   !.server_timestamp =
                       IF is_some(@) THEN Some(unwrap(@) - codec.client_offset) ELSE None]
        /\ codec.client_offset = 0 => DecodedValue = normalize(codec.value)

\* A DataValue with every field but the server timestamp has been through the
\* codec under a client offset that is not zero: the server picoseconds are
\* gone and the source timestamp is as it was.
RoundTripDroppedPicoseconds ==
    /\ codec.pc = "decoded"
    /\ codec.client_offset # 0
    /\ is_some(codec.value.value) /\ is_some(codec.value.status)
    /\ is_some(codec.value.source_timestamp) /\ is_some(codec.value.source_picoseconds)
    /\ ~is_some(codec.value.server_timestamp) /\ is_some(codec.value.server_picoseconds)
    /\ codec.decoded.server_picoseconds = None
    /\ codec.decoded.source_timestamp = codec.value.source_timestamp
    /\ codec.decoded.source_picoseconds = codec.value.source_picoseconds

(***************************************************************************)
(* Further properties of the event loop (SpecService, SpecChannel).        *)
(***************************************************************************)
\* C34: in no iteration of the loop of run() is the pending stream polled while
\* pending_messages is empty, so the stream never yields None and the
\* unreachable!() of the response branch is not executed, whatever deadlines,
\* commands, completions and transport events came before.
PendingStreamNeverExhausted ==
    running => ~(resp_fut(pending) = "Right" /\ stream_next(pending) = "None")

\* Every pending call has been answered and the loop runs on with the pending
\* set empty again.
PendingSetDrained ==
    /\ running
    /\ pending = {}
    /\ resp_fut(pending) = "Left"
    /\ \E id \in DOMAIN calls : calls[id].state = "finished"

\* C35 as stated: an OpenSecureChannel request that is answered with something
\* other than a good OpenSecureChannelResponse leaves SecureChannelState
\* (issued, renew_count, last_token_id) and the channel (secure channel id,
\* token id, security mode, token lifetime, remote nonce) as they were.
RejectedOpenLeavesChannelState ==
    [][(/\ opens' = opens + 1
        /\ Len(outbox') = Len(outbox) + 1
        /\ outbox'[Len(outbox')].kind # "OpenSecureChannelResponse")
           => /\ secure_channel_state' = secure_channel_state
              /\ channel' = channel]_vars

\* C36: over the life of a connection the controller enqueues at most one TCP
\* error message, and none once the transport is closing, whether an earlier
\* fatal error, a CloseSecureChannel or a failed enqueue set it closing.
AtMostOneErrorMessage ==
    /\ [](Cardinality(ErrorIndices) <= 1)
    /\ [][closing => ErrorIndices' = ErrorIndices]_vars

\* A call panicked and its panic was handled as a fatal error after the
\* transport had been set closing by an error message of another status: the
\* one error message is still the only one.
PanicAfterErrorMessage ==
    /\ closing
    /\ Cardinality(ErrorIndices) = 1
    /\ \A i \in ErrorIndices : outbox[i].status # "BadInternalError"
    /\ \E id \in DOMAIN calls :
          /\ calls[id].state = "panicked"
          /\ \A entry \in pending : entry.request_id # id

(***************************************************************************)
(* Further properties of the client's SecureChannelState (SpecClient).     *)
(***************************************************************************)
\* C37 as stated: when end_issue_or_renew_secure_channel returns an error, for
\* a response of another kind or for a server nonce that cannot be set, the
\* call has added no offset to the stored client offset and the secure
\* channel's security token and client offset are as they were.
ErrorLeavesClientChannel ==
    [][LET state == client_channel_state
           after == client_channel_state'
       IN  \A p \in Callers :
              ( /\ after.callers[p] # state.callers[p]
                /\ after.callers[p].pc = "idle"
                /\ after.callers[p].result = "Err" )
                  => /\ state.callers[p].offset = 0
                     /\ after.client_offset = state.client_offset
                     /\ after.secure_channel = state.secure_channel]_vars

(***************************************************************************)
(* Further properties of the type tree (SpecTypeTree).                     *)
(***************************************************************************)
\* C38 as stated: after any sequence of add_type_node and remove, the two
\* subtype maps are inverse to each other: subtypes_by_target maps c to p
\* exactly when c is a member of subtypes_by_source[p].
SubtypeMapsInverse ==
    \A c \in NodeIds, p \in NodeIds :
        (c \in DOMAIN type_tree.subtypes_by_target /\ type_tree.subtypes_by_target[c] = p)
            <=> (p \in DOMAIN type_tree.subtypes_by_source
                 /\ c \in type_tree.subtypes_by_source[p])

\* Every node of the tree has a type class.
OnlyTypeNodes == \A n \in DOMAIN type_tree.nodes : type_tree.nodes[n] \in TypeClasses

\* C39 as stated: on every type tree built from type nodes by add_type_node and
\* remove, get_all_children(root) returns, and what it returns is root and
\* exactly the nodes n with is_subtype_of(n, root), each listed once.
ChildrenAreTheSubtypes ==
    OnlyTypeNodes =>
        \A root \in NodeIds :
            LET listed == get_all_children(type_tree, root)
                subtypes == {n \in NodeIds : is_subtype_of(type_tree, n, root) = "true"}
            IN  /\ listed.returns
                /\ {listed.res[i] : i \in DOMAIN listed.res} = {root} \cup subtypes
                /\ Len(listed.res) = Cardinality({root} \cup subtypes)

(***************************************************************************)
(* Properties of SessionStarter.run (SpecStarter).                         *)
(***************************************************************************)
\* No step of a SessionController has been taken.
ControllerUntouched == outbox = <<>> /\ ~closing /\ opens = 0 /\ next_request_id = 1

\* C40 as stated: when Close arrives, or the command channel is closed, before
\* the connector has finished, no SessionController is ever created or run.
CloseBeforeConnectPreventsController ==
    starter.close_first => (starter.pc # "controller" /\ ControllerUntouched)

\* C40: when the select! of SessionStarter.run takes its command branch (Close,
\* or the command channel closed), run cancels the connect, waits for the
\* connect future to finish and returns, and no SessionController is created
\* or run; a SessionController runs only after the connect future returned a
\* transport to the select!.  A command that arrived before the connector
\* finished does not decide the select!: with both branches ready either may be
\* taken.
CommandBranchPreventsController ==
    /\ [](starter.cancelled =>
             (starter.pc \in {"cancelling", "returned"} /\ ControllerUntouched))
    /\ [](starter.pc # "controller" => ControllerUntouched)
    /\ [][(starter.pc = "cancelling" /\ starter'.pc # "cancelling")
              => (starter.connect # "Pending" /\ starter'.pc = "returned")]_vars
    /\ [][(starter.pc # "controller" /\ starter'.pc = "controller")
              => (starter.pc = "select" /\ starter.connect = "Ok"
                  /\ ~starter.cancelled)]_vars

\* The connect was cancelled, the connector still came back with a transport,
\* and run() has returned without a SessionController.
CancelledConnectReturned ==
    /\ starter.pc = "returned"
    /\ starter.cancelled
    /\ starter.connect = "Ok"
    /\ ControllerUntouched

=============================================================================
